---- MODULE Spec2Model ----
(***************************************************************************)
(* Model of the device-discovery and reconciliation core of directpv:      *)
(*   - the identity matcher (pkg/uevent/match.go and its tested revision), *)
(*   - the drive reconciler (pkg/node/uevent.go update, syncDriveStates),  *)
(*   - the volume teardown handler (pkg/volume/volume.go).                 *)
(* Strings are drawn from small alphabets, capacities from small naturals. *)
(***************************************************************************)
EXTENDS Integers, Sequences, FiniteSets, TLC

VARIABLES
    device,     \* matcher: the sys.Device handed to the matcher
    drives,     \* matcher: the candidate []*DirectCSIDrive, in list order
    matchRes,   \* matcher: what runMatcher returned (None before the call)
    probe,      \* matcher: the last single matcher evaluated and its result
    drive,      \* store: the DirectCSIDrive record
    volumes,    \* store: volume name -> DirectCSIVolume record
    hostDirs,   \* store: volume names whose host directory exists
    tasks,      \* store: label rewrites spawned by update and not yet run
    last,       \* store: the last handler run, its inputs and its result
    ops,        \* store: number of reconcile events handled so far
    msg,        \* listener: the buffer handed to the wire decoder
    parsed,     \* listener: what the decoder returned (None before the call)
    ctx,        \* listener: the enclosing context, "live" or "canceled"
    sock,       \* listener: the datagrams waiting on the event socket
    queue,      \* listener: the events pushed and not yet popped
    reader,     \* listener: the read loop of Run
    worker,     \* listener: the processEvents task
    handled     \* listener: the events the handler was invoked with

vars == <<device, drives, matchRes, probe, drive, volumes, hostDirs, tasks, last, ops,
          msg, parsed, ctx, sock, queue, reader, worker, handled>>
matchVars == <<device, drives, matchRes, probe>>
storeVars == <<drive, volumes, hostDirs, tasks, last, ops>>
listenerVars == <<msg, parsed, ctx, sock, queue, reader, worker, handled>>

None == [kind |-> "none"]

ListenerIdle ==
    /\ msg = << >>
    /\ parsed = None
    /\ ctx = "live"
    /\ sock = << >>
    /\ queue = << >>
    /\ reader = None
    /\ worker = None
    /\ handled = << >>

(***************************************************************************)
(* Bounds.                                                                 *)
(***************************************************************************)
MaxDrives == 2
MaxPartition == 1

Values == {"", "a", "b"}
PTTypes == {"", "dos", "MBR", "gpt"}
BlockSizes == {0, 512, 4096}
Partitions == 0..MaxPartition

(***************************************************************************)
(* Identity matcher: the revision the unit tests exercise.                 *)
(***************************************************************************)
EmptyDevice ==
    [Partition |-> 0, UeventSerial |-> "", WWID |-> "", Model |-> "",
     Vendor |-> "", PTUUID |-> "", PTType |-> "", PartUUID |-> "",
     DMUUID |-> "", MDUUID |-> "", UeventFSUUID |-> "", FSUUID |-> "",
     Serial |-> "", LogicalBlockSize |-> 0]

EmptyDriveId ==
    [PartitionNum |-> 0, UeventSerial |-> "", WWID |-> "", ModelNumber |-> "",
     Vendor |-> "", PartTableUUID |-> "", PartTableType |-> "",
     PartitionUUID |-> "", DMUUID |-> "", MDUUID |-> "", UeventFSUUID |-> "",
     FilesystemUUID |-> "", SerialNumber |-> "", LogicalBlockSize |-> 0]

Out(m, c) == [match |-> m, cont |-> c]

ToLower(s) ==
    CASE s = "DOS" -> "dos"
      [] s = "MBR" -> "mbr"
      [] s = "GPT" -> "gpt"
      [] OTHER -> s

isDOSPTType(ptType) == ptType \in {"dos", "msdos", "mbr"}

ptTypeNeverEqual(ptType1, ptType2) == FALSE

ptTypeEqual(ptType1, ptType2) ==
    LET t1 == ToLower(ptType1)
        t2 == ToLower(ptType2)
    IN  \/ t1 = t2
        \/ isDOSPTType(t1) /\ isDOSPTType(t2)

partitionNumberMatcher(dev, drv) ==
    Out(drv.PartitionNum = dev.Partition, FALSE)

ueventSerialNumberMatcher(dev, drv) ==
    IF drv.UeventSerial = "" THEN Out(FALSE, TRUE)
    ELSE Out(drv.UeventSerial = dev.UeventSerial, FALSE)

wwidMatcherEager(dev, drv) ==
    Out(drv.WWID = dev.WWID, FALSE)

wwidMatcher(dev, drv) ==
    IF drv.WWID = "" THEN Out(FALSE, TRUE)
    ELSE Out(drv.WWID = dev.WWID, FALSE)

modelNumberMatcher(dev, drv) ==
    IF drv.ModelNumber = "" THEN Out(FALSE, TRUE)
    ELSE Out(drv.ModelNumber = dev.Model, FALSE)

vendorMatcher(dev, drv) ==
    IF drv.Vendor = "" THEN Out(FALSE, TRUE)
    ELSE Out(drv.Vendor = dev.Vendor, FALSE)

partitionTableUUIDMatcher(dev, drv) ==
    IF drv.PartTableUUID = "" \/ drv.PartTableType = "" THEN Out(FALSE, TRUE)
    ELSE Out(drv.PartTableUUID = dev.PTUUID
                /\ ptTypeEqual(drv.PartTableType, dev.PTType), FALSE)

partitionUUIDMatcher(dev, drv) ==
    IF drv.PartitionUUID = "" THEN Out(FALSE, TRUE)
    ELSE Out(drv.PartitionUUID = dev.PartUUID, FALSE)

dmUUIDMatcher(dev, drv) ==
    IF drv.DMUUID = "" THEN Out(FALSE, TRUE)
    ELSE Out(drv.DMUUID = dev.DMUUID, FALSE)

mdUUIDMatcher(dev, drv) ==
    IF drv.MDUUID = "" THEN Out(FALSE, TRUE)
    ELSE Out(drv.MDUUID = dev.MDUUID, FALSE)

ueventFSUUIDMatcher(dev, drv) ==
    IF drv.UeventFSUUID = "" THEN Out(FALSE, TRUE)
    ELSE Out(drv.UeventFSUUID = dev.UeventFSUUID, FALSE)

fsUUIDMatcher(dev, drv) ==
    IF drv.FilesystemUUID = "" THEN Out(FALSE, TRUE)
    ELSE Out(drv.FilesystemUUID = dev.FSUUID, FALSE)

serialNumberMatcher(dev, drv) ==
    IF drv.SerialNumber = "" THEN Out(FALSE, TRUE)
    ELSE Out(drv.SerialNumber = dev.Serial, FALSE)

logicalBlocksizeMatcher(dev, drv) ==
    Out(drv.LogicalBlockSize = dev.LogicalBlockSize, FALSE)

matchersSerialFirst ==
    << "partitionNumberMatcher", "ueventSerialNumberMatcher", "wwidMatcher",
       "modelNumberMatcher", "vendorMatcher", "logicalBlocksizeMatcher",
       "partitionTableUUIDMatcher", "partitionUUIDMatcher", "dmUUIDMatcher",
       "mdUUIDMatcher", "ueventFSUUIDMatcher", "fsUUIDMatcher",
       "serialNumberMatcher" >>

matchers ==
    << "partitionNumberMatcher", "ueventSerialNumberMatcher", "wwidMatcher",
       "modelNumberMatcher", "vendorMatcher", "partitionTableUUIDMatcher",
       "partitionUUIDMatcher", "dmUUIDMatcher", "mdUUIDMatcher",
       "ueventFSUUIDMatcher", "fsUUIDMatcher", "serialNumberMatcher",
       "logicalBlocksizeMatcher" >>

\* matchFn(device, drive): the call of one element of the matcher list.
matchFn(name, dev, drv) ==
    CASE name = "partitionNumberMatcher" -> partitionNumberMatcher(dev, drv)
      [] name = "ueventSerialNumberMatcher" -> ueventSerialNumberMatcher(dev, drv)
      [] name = "wwidMatcher" -> wwidMatcher(dev, drv)
      [] name = "modelNumberMatcher" -> modelNumberMatcher(dev, drv)
      [] name = "vendorMatcher" -> vendorMatcher(dev, drv)
      [] name = "partitionTableUUIDMatcher" -> partitionTableUUIDMatcher(dev, drv)
      [] name = "partitionUUIDMatcher" -> partitionUUIDMatcher(dev, drv)
      [] name = "dmUUIDMatcher" -> dmUUIDMatcher(dev, drv)
      [] name = "mdUUIDMatcher" -> mdUUIDMatcher(dev, drv)
      [] name = "ueventFSUUIDMatcher" -> ueventFSUUIDMatcher(dev, drv)
      [] name = "fsUUIDMatcher" -> fsUUIDMatcher(dev, drv)
      [] name = "serialNumberMatcher" -> serialNumberMatcher(dev, drv)
      [] name = "logicalBlocksizeMatcher" -> logicalBlocksizeMatcher(dev, drv)

(***************************************************************************)
(* The helper matchers of the later draft of match.go.  Their call sites   *)
(* pass the Device value as alpha and the Drive value as beta.             *)
(***************************************************************************)
immutablePropertyMatcher(alpha, beta) ==
    CASE alpha = "" /\ beta = "" -> Out(FALSE, TRUE)
      [] alpha = "" /\ beta # "" -> Out(FALSE, FALSE)
      [] alpha # "" /\ beta = "" -> Out(FALSE, TRUE)
      [] alpha # "" /\ beta # "" -> Out(alpha = beta, FALSE)

fsPropertyMatcher(alpha, beta) ==
    CASE alpha = "" /\ beta = "" -> Out(FALSE, TRUE)
      [] alpha = "" /\ beta # "" -> Out(FALSE, TRUE)
      [] alpha # "" /\ beta = "" -> Out(FALSE, TRUE)
      [] alpha # "" /\ beta # "" ->
            IF alpha = beta THEN Out(TRUE, FALSE) ELSE Out(FALSE, TRUE)

sizeMatcher(alpha, beta) ==
    CASE alpha = 0 /\ beta = 0 -> Out(FALSE, TRUE)
      [] alpha = 0 /\ beta # 0 -> Out(FALSE, TRUE)
      [] alpha # 0 /\ beta = 0 -> Out(FALSE, TRUE)
      [] alpha # 0 /\ beta # 0 ->
            IF alpha = beta THEN Out(TRUE, FALSE) ELSE Out(FALSE, TRUE)

(***************************************************************************)
(* getMatchingDrives and runMatcher.  Drives are named by their index in   *)
(* the candidate list (the code holds pointers).                           *)
(***************************************************************************)
RECURSIVE firstConclusive(_, _, _)
\* the inner loop: index of the first matcher whose result has cont = FALSE,
\* 0 when every matcher asks to continue
firstConclusive(dev, drv, j) ==
    IF j > Len(matchers) THEN 0
    ELSE IF matchFn(matchers[j], dev, drv).cont
         THEN firstConclusive(dev, drv, j + 1)
         ELSE j

\* the named result matchList is declared and never allocated: it is nil
matchListIsNil == TRUE

\* one iteration of the inner loop: how the Drive is classified
classify(dev, drv) ==
    LET j == firstConclusive(dev, drv, 1)
    IN  IF j = 0 THEN "inconclusive"
        ELSE IF matchFn(matchers[j], dev, drv).match THEN "match"
        ELSE "no-match"

RECURSIVE driveLoop(_, _, _, _)
driveLoop(dev, drvs, i, matchedDrives) ==
    IF i > Len(drvs) THEN [panicked |-> FALSE, matchedDrives |-> matchedDrives]
    ELSE LET appended == IF classify(dev, drvs[i]) = "match"
                         THEN Append(matchedDrives, i)
                         ELSE matchedDrives
         IN  \* matchList[drive] = matchedFn: a write to a nil map panics
             IF matchListIsNil
             THEN [panicked |-> TRUE, matchedDrives |-> appended]
             ELSE driveLoop(dev, drvs, i + 1, appended)

getMatchingDrives(dev, drvs) == driveLoop(dev, drvs, 1, << >>)

runMatcher(dev, drvs) ==
    LET r == getMatchingDrives(dev, drvs)
    IN  IF r.panicked THEN [kind |-> "panic"]
        ELSE CASE Len(r.matchedDrives) = 1 ->
                    [kind |-> "drive", drive |-> r.matchedDrives[1]]
               [] Len(r.matchedDrives) = 0 -> [kind |-> "errNoMatchFound"]
               [] OTHER -> [kind |-> "tooManyMatches"]

(***************************************************************************)
(* Inputs of the matcher: a Device and candidate Drives whose identity     *)
(* properties are empty except for the ones of one focus set.              *)
(***************************************************************************)
StrProps ==
    {"UeventSerial", "WWID", "Model", "Vendor", "PTUUID", "PTType",
     "PartUUID", "DMUUID", "MDUUID", "UeventFSUUID", "FSUUID", "Serial"}

\* DirectCSIDriveStatus field compared with Device field p
DriveField(p) ==
    CASE p = "Model" -> "ModelNumber"
      [] p = "PTUUID" -> "PartTableUUID"
      [] p = "PTType" -> "PartTableType"
      [] p = "PartUUID" -> "PartitionUUID"
      [] p = "FSUUID" -> "FilesystemUUID"
      [] p = "Serial" -> "SerialNumber"
      [] OTHER -> p

ValuesOf(p) == IF p = "PTType" THEN PTTypes ELSE Values

\* a focus: the string properties that may be non-empty, and whether the
\* logical block size may be non-zero
FocusSets ==
    {[props |-> {p}, lbs |-> FALSE] : p \in StrProps}
        \cup {[props |-> {}, lbs |-> TRUE],
              [props |-> {"WWID", "Model"}, lbs |-> FALSE],
              [props |-> {"PTUUID", "PTType"}, lbs |-> FALSE],
              [props |-> {"Serial", "FSUUID"}, lbs |-> FALSE]}

Assignments(P) == {g \in [P -> Values \cup PTTypes] :
                        \A p \in P : g[p] \in ValuesOf(p)}

LbsOf(F) == IF F.lbs THEN BlockSizes ELSE {0}

DeviceWith(g, n, l) ==
    [f \in DOMAIN EmptyDevice |->
        IF f = "Partition" THEN n
        ELSE IF f = "LogicalBlockSize" THEN l
        ELSE IF f \in DOMAIN g THEN g[f] ELSE ""]

DriveWith(g, n, l) ==
    [f \in DOMAIN EmptyDriveId |->
        IF f = "PartitionNum" THEN n
        ELSE IF f = "LogicalBlockSize" THEN l
        ELSE IF \E p \in DOMAIN g : DriveField(p) = f
             THEN g[CHOOSE p \in DOMAIN g : DriveField(p) = f]
             ELSE ""]

DevicesOn(F) ==
    {DeviceWith(g, n, l) : g \in Assignments(F.props), n \in Partitions, l \in LbsOf(F)}
DrivesOn(F) ==
    {DriveWith(g, n, l) : g \in Assignments(F.props), n \in Partitions, l \in LbsOf(F)}

SeqsUpTo(S, k) == UNION {[1..n -> S] : n \in 0..k}

StoreIdle ==
    /\ drive = None
    /\ volumes = << >>
    /\ hostDirs = {}
    /\ tasks = {}
    /\ last = None
    /\ ops = 0

(***************************************************************************)
(* SpecMatch: runMatcher applied to a Device and a list of Drives.         *)
(***************************************************************************)
InitMatch ==
    /\ ListenerIdle
    /\ \E F \in FocusSets :
          /\ device \in DevicesOn(F)
          /\ drives \in SeqsUpTo(DrivesOn(F), MaxDrives)
    /\ matchRes = None
    /\ probe = None
    /\ StoreIdle

RunMatcher ==
    /\ matchRes = None
    /\ matchRes' = runMatcher(device, drives)
    /\ UNCHANGED <<device, drives, probe>>
    /\ UNCHANGED storeVars
    /\ UNCHANGED listenerVars

GetMatchingDrives ==
    /\ probe = None
    /\ probe' = [kind |-> "getMatchingDrives",
                 res |-> getMatchingDrives(device, drives)]
    /\ UNCHANGED <<device, drives, matchRes>>
    /\ UNCHANGED storeVars
    /\ UNCHANGED listenerVars

NextMatch == RunMatcher \/ GetMatchingDrives

SpecMatch == InitMatch /\ [][NextMatch]_vars

(***************************************************************************)
(* SpecMatcher: one matcher applied to a Device and one Drive.             *)
(***************************************************************************)
\* call sites of the draft's helper matchers
draftHelperOf(p) ==
    CASE p \in {"UeventFSUUID", "FSUUID"} -> "fsPropertyMatcher"
      [] p = "LogicalBlockSize" -> "sizeMatcher"
      [] OTHER -> "immutablePropertyMatcher"

DraftProps == (StrProps \ {"PTUUID", "PTType"}) \cup {"LogicalBlockSize"}

draftMatcher(p, dev, drv) ==
    CASE draftHelperOf(p) = "fsPropertyMatcher" ->
            fsPropertyMatcher(dev[p], drv[DriveField(p)])
      [] draftHelperOf(p) = "sizeMatcher" ->
            sizeMatcher(dev[p], drv[DriveField(p)])
      [] OTHER -> immutablePropertyMatcher(dev[p], drv[DriveField(p)])

InitMatcher ==
    /\ ListenerIdle
    /\ \E F \in FocusSets :
          /\ device \in DevicesOn(F)
          /\ \E d \in DrivesOn(F) : drives = <<d>>
    /\ matchRes = None
    /\ probe = None
    /\ StoreIdle

EvalMatcher ==
    /\ probe = None
    /\ \E j \in 1..Len(matchers) :
          probe' = [kind |-> "matcher", fn |-> matchers[j],
                    res |-> matchFn(matchers[j], device, drives[1])]
    /\ UNCHANGED <<device, drives, matchRes>>
    /\ UNCHANGED storeVars
    /\ UNCHANGED listenerVars

EvalDraftMatcher ==
    /\ probe = None
    /\ \E p \in DraftProps :
          probe' = [kind |-> "draft", fn |-> draftHelperOf(p), prop |-> p,
                    res |-> draftMatcher(p, device, drives[1])]
    /\ UNCHANGED <<device, drives, matchRes>>
    /\ UNCHANGED storeVars
    /\ UNCHANGED listenerVars

\* the first revision of match.go: one expression decides both results
partitionTableUUIDMatcherV1(dev, drv) ==
    LET matched == \/ drv.PartTableUUID = ""
                   \/ drv.PartTableUUID = dev.PTUUID
                   \/ drv.PartTableType = ""
                   \/ ptTypeEqual(drv.PartTableType, dev.PTType)
    IN  Out(matched, matched)

EvalFirstMatcher ==
    /\ probe = None
    /\ probe' = [kind |-> "first", fn |-> "partitionTableUUIDMatcher",
                 res |-> partitionTableUUIDMatcherV1(device, drives[1])]
    /\ UNCHANGED <<device, drives, matchRes>>
    /\ UNCHANGED storeVars
    /\ UNCHANGED listenerVars

NextMatcher == EvalMatcher \/ EvalDraftMatcher \/ EvalFirstMatcher

SpecMatcher == InitMatcher /\ [][NextMatcher]_vars

(***************************************************************************)
(* Claims about the identity matcher.                                      *)
(***************************************************************************)
MatcherProp(name) ==
    CASE name = "partitionNumberMatcher" -> "Partition"
      [] name = "ueventSerialNumberMatcher" -> "UeventSerial"
      [] name = "wwidMatcher" -> "WWID"
      [] name = "modelNumberMatcher" -> "Model"
      [] name = "vendorMatcher" -> "Vendor"
      [] name = "partitionTableUUIDMatcher" -> "PT"
      [] name = "partitionUUIDMatcher" -> "PartUUID"
      [] name = "dmUUIDMatcher" -> "DMUUID"
      [] name = "mdUUIDMatcher" -> "MDUUID"
      [] name = "ueventFSUUIDMatcher" -> "UeventFSUUID"
      [] name = "fsUUIDMatcher" -> "FSUUID"
      [] name = "serialNumberMatcher" -> "Serial"
      [] name = "logicalBlocksizeMatcher" -> "LogicalBlockSize"

IsProbe == probe.kind \in {"matcher", "draft"}
ProbeProp == IF probe.kind = "matcher" THEN MatcherProp(probe.fn) ELSE probe.prop
StringProbe == IsProbe /\ ProbeProp \notin {"Partition", "LogicalBlockSize"}

DriveEmpty(p) ==
    IF p = "PT"
    THEN drives[1].PartTableUUID = "" \/ drives[1].PartTableType = ""
    ELSE drives[1][DriveField(p)] = ""

DeviceEmpty(p) ==
    IF p = "PT"
    THEN device.PTUUID = "" \/ device.PTType = ""
    ELSE device[p] = ""

ValuesEqual(p) ==
    IF p = "PT"
    THEN /\ drives[1].PartTableUUID = device.PTUUID
         /\ ptTypeEqual(drives[1].PartTableType, device.PTType)
    ELSE drives[1][DriveField(p)] = device[p]

Inconclusive(r) == r.cont
IsMatch(r) == ~r.cont /\ r.match
IsNoMatch(r) == ~r.cont /\ ~r.match

MatchedIndices == {i \in DOMAIN drives : classify(device, drives[i]) = "match"}

\* C1: runMatcher returns the Drive when exactly one Drive is classified as
\* matched, errNoMatchFound when none is, and the too-many-matches error when
\* more than one is.
C1_RunMatcherByCount ==
    matchRes # None =>
        /\ Cardinality(MatchedIndices) = 1 =>
                matchRes = [kind |-> "drive",
                            drive |-> CHOOSE i \in MatchedIndices : TRUE]
        /\ MatchedIndices = {} => matchRes.kind = "errNoMatchFound"
        /\ Cardinality(MatchedIndices) > 1 => matchRes.kind = "tooManyMatches"

\* C2: getMatchingDrives returns, for every candidate Drive, the Drive in
\* the matched list exactly when its first conclusive matcher reports a
\* match; a Drive with every matcher inconclusive is not in the list.
C2_FirstConclusiveDecides ==
    probe.kind = "getMatchingDrives" =>
        /\ ~probe.res.panicked
        /\ \A i \in DOMAIN drives :
              (\E k \in DOMAIN probe.res.matchedDrives :
                    probe.res.matchedDrives[k] = i)
                <=> classify(device, drives[i]) = "match"

\* C3 (as claimed): a string-property matcher is inconclusive whenever the
\* Drive value is empty, or the Device value is empty, or both.
C3_EmptyIsInconclusive ==
    (StringProbe /\ (DriveEmpty(ProbeProp) \/ DeviceEmpty(ProbeProp)))
        => Inconclusive(probe.res)

\* C3 (amended): a string-property matcher is inconclusive whenever the
\* Drive value is empty; with a non-empty Drive value and an empty Device
\* value it reports no-match (only fsPropertyMatcher stays inconclusive).
C3_EmptyDriveIsInconclusive ==
    StringProbe =>
        /\ DriveEmpty(ProbeProp) => Inconclusive(probe.res)
        /\ (~DriveEmpty(ProbeProp) /\ DeviceEmpty(ProbeProp)) =>
                IF probe.fn = "fsPropertyMatcher"
                THEN Inconclusive(probe.res)
                ELSE IsNoMatch(probe.res)

C3_Witness ==
    /\ probe.kind = "matcher"
    /\ probe.fn = "wwidMatcher"
    /\ drives[1].WWID = ""
    /\ device.WWID # ""
    /\ Inconclusive(probe.res)

C3_WitnessNoMatch ==
    /\ probe.kind = "matcher"
    /\ probe.fn = "wwidMatcher"
    /\ drives[1].WWID # ""
    /\ device.WWID = ""
    /\ IsNoMatch(probe.res)

\* C4: with both values non-empty (non-zero for a size) a per-property
\* matcher is conclusive: match when the values are equal, no-match otherwise.
C4_NonEmptyIsConclusive ==
    (/\ IsProbe
     /\ ProbeProp # "Partition"
     /\ IF ProbeProp = "LogicalBlockSize"
        THEN drives[1].LogicalBlockSize # 0 /\ device.LogicalBlockSize # 0
        ELSE ~DriveEmpty(ProbeProp) /\ ~DeviceEmpty(ProbeProp))
        => IF ValuesEqual(ProbeProp) THEN IsMatch(probe.res)
                                     ELSE IsNoMatch(probe.res)

LeadingHwMatchers ==
    {"partitionNumberMatcher", "ueventSerialNumberMatcher", "wwidMatcher",
     "modelNumberMatcher", "vendorMatcher"}
HwMatchers == LeadingHwMatchers \cup {"serialNumberMatcher"}
SwMatchers ==
    {"partitionTableUUIDMatcher", "partitionUUIDMatcher", "dmUUIDMatcher",
     "mdUUIDMatcher", "ueventFSUUIDMatcher", "fsUUIDMatcher"}
Pos(name) == CHOOSE j \in 1..Len(matchers) : matchers[j] = name

MaxCap == 4
MaxReconciles == 1
MinSupportedDeviceSize == 2

NodeID == "node-1"
DriveName == "drive-1"
DirectCSIDriveFinalizerDataProtection == "direct.csi.min.io/data-protection"
DirectCSIVolumeFinalizerPurgeProtection == "direct.csi.min.io/purge-protection"
VolumeNames == {"v1", "v2"}

\* directcsi.DirectCSIDriveFinalizerPrefix + volumeName
DriveFinalizer(volumeName) ==
    CASE volumeName = "v1" -> "direct.csi.min.io/volume-v1"
      [] volumeName = "v2" -> "direct.csi.min.io/volume-v2"

\* strings.HasPrefix(finalizer, DirectCSIDriveFinalizerPrefix) / TrimPrefix
HasPrefix(finalizer) == \E v \in VolumeNames : finalizer = DriveFinalizer(v)
TrimPrefix(finalizer) == CHOOSE v \in VolumeNames : finalizer = DriveFinalizer(v)

CapacityOf(volumeName) == IF volumeName = "v1" THEN 1 ELSE 2

Statuses == {"Available", "Unavailable", "InUse", "Ready", "Terminating"}
Protected == {"InUse", "Ready", "Terminating"}

DeviceNames == {"sda", "sdb"}
\* "/dev/" + device.Name
DevPath(name) == IF name = "sda" THEN "/dev/sda" ELSE "/dev/sdb"
\* utils.SanitizeDrivePath of a device name or of its /dev path
SanitizeDrivePath(in) ==
    CASE in \in {"sda", "/dev/sda"} -> "sda"
      [] in \in {"sdb", "/dev/sdb"} -> "sdb"
      [] OTHER -> in

JoinAnywhere(fsuuid) == "/mnt/other"

MountRoot == "/var/lib/direct-csi/mnt"
\* filepath.Join(sys.MountRoot, fsuuid)
JoinMountRoot(fsuuid) ==
    CASE fsuuid = "" -> MountRoot
      [] fsuuid = "a" -> "/var/lib/direct-csi/mnt/a"
      [] fsuuid = "b" -> "/var/lib/direct-csi/mnt/b"
MountPointValues ==
    {"", "/var/lib/direct-csi/mnt/a", "/var/lib/direct-csi/mnt/b", "/mnt/other"}
\* strings.HasPrefix(mountPoint, "/var/lib/direct-csi/")
UnderDirectCSI(mountPoint) ==
    mountPoint \in {"/var/lib/direct-csi/mnt/a", "/var/lib/direct-csi/mnt/b"}

allDirectCSIMounts(mountPoints) ==
    \A i \in DOMAIN mountPoints : UnderDirectCSI(mountPoints[i])

isDirectCSIMount(mountPoints) ==
    \/ Len(mountPoints) = 0
    \/ \E i \in DOMAIN mountPoints : UnderDirectCSI(mountPoints[i])

\* Fields update() and syncDriveStates only copy from the Device.
PlainFields ==
    {"LogicalBlockSize", "PartitionNum", "PhysicalBlockSize", "PartitionUUID",
     "MajorNumber", "MinorNumber", "DMName", "DMUUID", "MDUUID",
     "PartTableUUID", "Virtual"}
PlainValues == {0, 1}
FSTypes == {"", "xfs"}
Masters == {"", "dm-0"}

FSTypeEqual(fsType1, fsType2) == fsType1 = fsType2

\* The Available/Unavailable rule of a Device.
driveStatusOf(dev) ==
    IF \/ dev.Size < MinSupportedDeviceSize
       \/ dev.ReadOnly
       \/ dev.Partitioned
       \/ dev.SwapOn
       \/ dev.Master # ""
       \/ ~isDirectCSIMount(dev.MountPoints)
    THEN "Unavailable"
    ELSE "Available"

NewDriveStatus(dev) == driveStatusOf(dev)

(***************************************************************************)
(* driveEventHandler.update: the field-by-field reconcile of a Drive with  *)
(* the Device observed for it.  The result is the Drive object as it is    *)
(* handed to the store, with the flags the handler keeps.                  *)
(***************************************************************************)
update(drv, dev) ==
    LET sizeChanged == drv.TotalCapacity # dev.Size
        allocated ==
            IF sizeChanged /\ drv.AllocatedCapacity > dev.Size
            THEN dev.Size
            ELSE drv.AllocatedCapacity
        nameChanged == drv.Path # DevPath(dev.Name)
        fsUUIDChanged ==
            \/ drv.FilesystemUUID # dev.FSUUID
            \/ drv.UeventFSUUID # dev.UeventFSUUID
        copied ==
            [drv EXCEPT
                !.Filesystem = IF FSTypeEqual(@, dev.FSType) THEN @ ELSE dev.FSType,
                !.TotalCapacity = dev.Size,
                !.AllocatedCapacity = allocated,
                !.FreeCapacity = IF sizeChanged THEN dev.Size - allocated ELSE @,
                !.ModelNumber = dev.Model,
                !.Path = DevPath(dev.Name),
                !.pathLabel = IF nameChanged THEN SanitizeDrivePath(dev.Name) ELSE @,
                !.RootPartition = dev.Name,
                !.SerialNumber = dev.Serial,
                !.FilesystemUUID = dev.FSUUID,
                !.UeventSerial = dev.UeventSerial,
                !.UeventFSUUID = dev.UeventFSUUID,
                !.WWID = dev.WWID,
                !.Vendor = dev.Vendor,
                !.PartTableType = IF ptTypeEqual(@, dev.PTType) THEN @ ELSE dev.PTType,
                !.ReadOnly = dev.ReadOnly,
                !.Partitioned = dev.Partitioned,
                !.SwapOn = dev.SwapOn,
                !.Master = dev.Master,
                !.plain = dev.plain]
        copyUpdated ==
            \/ ~FSTypeEqual(drv.Filesystem, dev.FSType)
            \/ sizeChanged
            \/ drv.ModelNumber # dev.Model
            \/ nameChanged
            \/ drv.RootPartition # dev.Name
            \/ drv.SerialNumber # dev.Serial
            \/ fsUUIDChanged
            \/ drv.UeventSerial # dev.UeventSerial
            \/ drv.WWID # dev.WWID
            \/ drv.Vendor # dev.Vendor
            \/ ~ptTypeEqual(drv.PartTableType, dev.PTType)
            \/ drv.ReadOnly # dev.ReadOnly
            \/ drv.Partitioned # dev.Partitioned
            \/ drv.SwapOn # dev.SwapOn
            \/ drv.Master # dev.Master
            \/ \E f \in PlainFields : drv.plain[f] # dev.plain[f]
        mountSync ==
            IF drv.DriveStatus \in Protected
            THEN /\ ~fsUUIDChanged
                 /\ dev.FirstMountPoint # ""
                 /\ drv.Mountpoint # dev.FirstMountPoint
                 /\ dev.FirstMountPoint = JoinMountRoot(copied.FilesystemUUID)
            ELSE drv.Mountpoint # dev.FirstMountPoint
        mounted ==
            IF mountSync
            THEN [copied EXCEPT !.Mountpoint = dev.FirstMountPoint,
                                !.MountOptions = dev.FirstMountOptions]
            ELSE copied
        driveStatus == NewDriveStatus(dev)
        statusSync ==
            /\ driveStatus # drv.DriveStatus
            /\ drv.DriveStatus \notin Protected
        final ==
            IF statusSync
            THEN [mounted EXCEPT !.DriveStatus = driveStatus]
            ELSE mounted
    IN  [drive |-> final,
         updated |-> copyUpdated \/ mountSync \/ statusSync,
         nameChanged |-> nameChanged]

(***************************************************************************)
(* syncDriveStates / checkDirectCSIDriveStatus / syncDrive: the reconcile  *)
(* that returns an updated copy of the Drive and a verdict on it.          *)
(***************************************************************************)
syncDriveStates(drv, dev) ==
    LET driveStatus == driveStatusOf(dev)
        allocated ==
            IF driveStatus = "InUse"
            THEN drv.AllocatedCapacity
            ELSE dev.Size - dev.FreeCapacity
    IN  [drv EXCEPT
            !.Filesystem = dev.FSType,
            !.MountOptions = dev.FirstMountOptions,
            !.Mountpoint = dev.FirstMountPoint,
            !.NodeName = NodeID,
            !.RootPartition = dev.Name,
            !.FilesystemUUID = dev.FSUUID,
            !.Topology = "topology",
            !.UeventFSUUID = dev.UeventFSUUID,
            !.PartTableType = dev.PTType,
            !.ReadOnly = dev.ReadOnly,
            !.Partitioned = dev.Partitioned,
            !.SwapOn = dev.SwapOn,
            !.Master = dev.Master,
            !.plain = dev.plain,
            !.ModelNumber = IF @ = "" THEN dev.Model ELSE @,
            !.SerialNumber = IF @ = "" THEN dev.Serial ELSE @,
            !.UeventSerial = IF @ = "" THEN dev.UeventSerial ELSE @,
            !.WWID = IF @ = "" THEN dev.WWID ELSE @,
            !.Vendor = IF @ = "" THEN dev.Vendor ELSE @,
            !.DriveStatus = driveStatus,
            !.Path = DevPath(dev.Name),
            !.pathLabel = SanitizeDrivePath(dev.Name),
            !.TotalCapacity = dev.Size,
            !.AllocatedCapacity = allocated,
            !.FreeCapacity = dev.Size - allocated]

checkDirectCSIDriveStatus(oldDrive, updatedDrive) ==
    IF oldDrive.DriveStatus \in Protected
    THEN CASE oldDrive.UeventFSUUID # updatedDrive.UeventFSUUID -> "invalid: FSUUID"
           [] oldDrive.Mountpoint # updatedDrive.Mountpoint -> "invalid: Mountpoint"
           [] OTHER -> "nil"
    ELSE "nil"

syncDrive(dev, drv) ==
    LET updatedDrive == syncDriveStates(drv, dev)
    IN  [drive |-> updatedDrive,
         err |-> checkDirectCSIDriveStatus(drv, updatedDrive)]

(***************************************************************************)
(* VolumeEventHandler: excludeFinalizer, releaseVolume, remove.            *)
(* fail names the first call to the outside that fails, if any: the        *)
(* removal of the host directory, the Get or the Update of the Drive, the  *)
(* Update of the Volume.  The handler returns at the first failure.        *)
(***************************************************************************)
Failures == {"none", "rm", "get", "updDrive", "updVolume"}

excludeVolumeFinalizers(finalizers, finalizer) ==
    [result |-> SelectSeq(finalizers, LAMBDA f : ~HasPrefix(f)),
     found |-> \E i \in DOMAIN finalizers : finalizers[i] = finalizer]

excludeFinalizer(finalizers, finalizer) ==
    [result |-> SelectSeq(finalizers, LAMBDA f : f # finalizer),
     found |-> \E i \in DOMAIN finalizers : finalizers[i] = finalizer]

releaseVolumeKeepStatus(drv, volumeName, capacity, fail) ==
    IF fail = "get"
    THEN [drive |-> drv, err |-> "get drive", updates |-> 0]
    ELSE LET ex == excludeFinalizer(drv.finalizers, DriveFinalizer(volumeName))
             released ==
                 [drv EXCEPT
                     !.finalizers = ex.result,
                     !.FreeCapacity = @ + capacity,
                     !.AllocatedCapacity = drv.TotalCapacity - (drv.FreeCapacity + capacity)]
         IN  CASE ~ex.found -> [drive |-> drv, err |-> "nil", updates |-> 0]
               [] ex.found /\ fail # "updDrive" ->
                     [drive |-> released, err |-> "nil", updates |-> 1]
               [] OTHER -> [drive |-> drv, err |-> "update drive", updates |-> 1]

\* The Drive in the store after releaseVolume, and the error it returns.
releaseVolume(drv, volumeName, capacity, fail) ==
    IF fail = "get"
    THEN [drive |-> drv, err |-> "get drive", updates |-> 0]
    ELSE LET ex == excludeFinalizer(drv.finalizers, DriveFinalizer(volumeName))
             status ==
                 IF /\ Len(ex.result) = 1
                    /\ ex.result[1] = DirectCSIDriveFinalizerDataProtection
                 THEN "Ready"
                 ELSE drv.DriveStatus
             released ==
                 [drv EXCEPT
                     !.DriveStatus = status,
                     !.finalizers = ex.result,
                     !.FreeCapacity = @ + capacity,
                     !.AllocatedCapacity = drv.TotalCapacity - (drv.FreeCapacity + capacity)]
         IN  CASE ~ex.found -> [drive |-> drv, err |-> "nil", updates |-> 0]
               [] ex.found /\ fail # "updDrive" ->
                     [drive |-> released, err |-> "nil", updates |-> 1]
               [] OTHER -> [drive |-> drv, err |-> "update drive", updates |-> 1]

neverPublished(vol) == FALSE

\* A condition of type Published with status True.
isPublished(vol) == vol.published

\* The Volume record after a successful Update: a record marked for deletion
\* that holds no finalizer is gone.
StoreVolume(vols, name, vol) ==
    IF vol.deleted /\ Len(vol.finalizers) = 0
    THEN [n \in DOMAIN vols \ {name} |-> vols[n]]
    ELSE [vols EXCEPT ![name] = vol]

\* st is the store (drive, volumes, hostDirs); the result is the store after
\* the handler, and the error the handler returns.
remove(st, name, fail) ==
    LET vol == st.volumes[name]
        stay == [drive |-> st.drive, volumes |-> st.volumes, hostDirs |-> st.hostDirs]
        rel == releaseVolume(st.drive, name, vol.TotalCapacity, fail)
        ex == excludeFinalizer(vol.finalizers, DirectCSIVolumeFinalizerPurgeProtection)
        cleaned == [stay EXCEPT !.hostDirs = @ \ {name}]
        released == [cleaned EXCEPT !.drive = rel.drive]
    IN  CASE ~vol.deleted -> [st |-> stay, err |-> "nil", driveUpdates |-> 0]
          [] vol.deleted /\ isPublished(vol) ->
                [st |-> stay, err |-> "waiting for volume to be released",
                 driveUpdates |-> 0]
          [] vol.deleted /\ ~isPublished(vol) /\ fail = "rm" ->
                [st |-> stay, err |-> "remove all", driveUpdates |-> 0]
          [] vol.deleted /\ ~isPublished(vol) /\ fail # "rm" /\ rel.err # "nil" ->
                [st |-> released, err |-> rel.err, driveUpdates |-> rel.updates]
          [] vol.deleted /\ ~isPublished(vol) /\ fail # "rm" /\ rel.err = "nil"
                /\ fail = "updVolume" ->
                [st |-> released, err |-> "update volume",
                 driveUpdates |-> rel.updates]
          [] OTHER ->
                [st |-> [released EXCEPT
                            !.volumes = StoreVolume(@, name,
                                            [vol EXCEPT !.finalizers = ex.result])],
                 err |-> "nil", driveUpdates |-> rel.updates]

(***************************************************************************)
(* Device reports.  The Device observed for a Drive agrees with the record *)
(* or differs from it in one property.                                     *)
(***************************************************************************)
Min(a, b) == IF a < b THEN a ELSE b
Max(a, b) == IF a < b THEN b ELSE a

\* What the probe of one device reports together: the mount list and the
\* options of the first mount, free space within the size.
Probed(dev) ==
    [dev EXCEPT
        !.MountPoints = IF dev.FirstMountPoint = "" THEN << >>
                        ELSE <<dev.FirstMountPoint>>,
        !.FirstMountOptions = IF dev.FirstMountPoint = "" THEN "" ELSE "rw",
        !.FreeCapacity = Max(0, Min(@, dev.Size))]

DeviceOf(drv) ==
    Probed([FSType |-> drv.Filesystem,
            Size |-> drv.TotalCapacity,
            FreeCapacity |-> drv.FreeCapacity,
            Model |-> drv.ModelNumber,
            Name |-> drv.RootPartition,
            Serial |-> drv.SerialNumber,
            FSUUID |-> drv.FilesystemUUID,
            UeventSerial |-> drv.UeventSerial,
            UeventFSUUID |-> drv.UeventFSUUID,
            WWID |-> drv.WWID,
            Vendor |-> drv.Vendor,
            PTType |-> drv.PartTableType,
            ReadOnly |-> drv.ReadOnly,
            Partitioned |-> drv.Partitioned,
            SwapOn |-> drv.SwapOn,
            Master |-> drv.Master,
            FirstMountPoint |-> drv.Mountpoint,
            FirstMountOptions |-> drv.MountOptions,
            MountPoints |-> << >>,
            plain |-> drv.plain])

DeviceFields ==
    {"FSType", "Size", "FreeCapacity", "Model", "Name", "Serial", "FSUUID",
     "UeventSerial", "UeventFSUUID", "WWID", "Vendor", "PTType", "ReadOnly",
     "Partitioned", "SwapOn", "Master", "FirstMountPoint"}

DeviceValues(f) ==
    CASE f = "FSType" -> FSTypes
      [] f \in {"Size", "FreeCapacity"} -> 0..MaxCap
      [] f = "Name" -> DeviceNames
      [] f = "PTType" -> PTTypes
      [] f \in {"ReadOnly", "Partitioned", "SwapOn"} -> BOOLEAN
      [] f = "Master" -> Masters
      [] f = "FirstMountPoint" -> MountPointValues
      [] OTHER -> Values

DeviceReports(drv) ==
    LET same == DeviceOf(drv)
    IN  {same}
        \cup UNION {{Probed([same EXCEPT ![f] = x]) : x \in DeviceValues(f)} :
                        f \in DeviceFields}
        \cup UNION {{[same EXCEPT !.plain[f] = x] : x \in PlainValues} :
                        f \in PlainFields}

(***************************************************************************)
(* Spec: the store under volume teardown and drive reconcile events.       *)
(***************************************************************************)
MatcherIdle ==
    /\ device = EmptyDevice
    /\ drives = << >>
    /\ matchRes = None
    /\ probe = None

Sum2(S) == IF "v1" \in S THEN (IF "v2" \in S THEN CapacityOf("v1") + CapacityOf("v2")
                                              ELSE CapacityOf("v1"))
           ELSE (IF "v2" \in S THEN CapacityOf("v2") ELSE 0)

FinalizersOf(dp, S) ==
    (IF dp THEN <<DirectCSIDriveFinalizerDataProtection>> ELSE << >>)
    \o (IF "v1" \in S THEN <<DriveFinalizer("v1")>> ELSE << >>)
    \o (IF "v2" \in S THEN <<DriveFinalizer("v2")>> ELSE << >>)

\* A Drive in use, ready or terminating is formatted, mounted or not.
Formatted(status, mounted) == mounted \/ status \in Protected

InitDrive(status, dp, S, hw, mounted) ==
    [finalizers |-> FinalizersOf(dp, S),
     pathLabel |-> "sda",
     NodeName |-> NodeID,
     Topology |-> "topology",
     Filesystem |-> IF Formatted(status, mounted) THEN "xfs" ELSE "",
     TotalCapacity |-> MaxCap,
     AllocatedCapacity |-> Sum2(S),
     FreeCapacity |-> MaxCap - Sum2(S),
     ModelNumber |-> hw,
     Path |-> DevPath("sda"),
     RootPartition |-> "sda",
     SerialNumber |-> hw,
     FilesystemUUID |-> IF Formatted(status, mounted) THEN "a" ELSE "",
     UeventSerial |-> hw,
     UeventFSUUID |-> IF Formatted(status, mounted) THEN "a" ELSE "",
     WWID |-> hw,
     Vendor |-> hw,
     PartTableType |-> "",
     ReadOnly |-> FALSE,
     Partitioned |-> FALSE,
     SwapOn |-> FALSE,
     Master |-> "",
     Mountpoint |-> IF mounted THEN JoinMountRoot("a") ELSE "",
     MountOptions |-> IF mounted THEN "rw" ELSE "",
     DriveStatus |-> status,
     plain |-> [f \in PlainFields |-> 0]]

InitVolume(name, deleted, published) ==
    [Drive |-> DriveName,
     TotalCapacity |-> CapacityOf(name),
     finalizers |-> <<DirectCSIVolumeFinalizerPurgeProtection>>,
     deleted |-> deleted,
     published |-> published,
     pathLabel |-> "sda"]

Init ==
    /\ ListenerIdle
    /\ MatcherIdle
    /\ \E S \in {{}, {"v1"}, {"v1", "v2"}}, dp \in BOOLEAN, hw \in {"", "a"},
          mounted \in BOOLEAN, status \in Statuses :
          /\ S # {} => status = "InUse"
          /\ status \notin Protected => ~mounted
          /\ drive = InitDrive(status, dp, S, hw, mounted)
          /\ \E del \in [S -> BOOLEAN], pub \in [S -> BOOLEAN] :
                volumes = [n \in S |-> InitVolume(n, del[n], pub[n])]
          /\ hostDirs = S
    /\ tasks = {}
    /\ last = None
    /\ ops = 0

\* Add / Update event of the volume controller for one Volume.
Remove ==
    \E name \in DOMAIN volumes, fail \in Failures :
        LET r == remove([drive |-> drive, volumes |-> volumes,
                         hostDirs |-> hostDirs], name, fail)
        IN  /\ drive' = r.st.drive
            /\ volumes' = r.st.volumes
            /\ hostDirs' = r.st.hostDirs
            /\ last' = [kind |-> "remove", vol |-> name, err |-> r.err,
                        drive |-> drive, volumes |-> volumes,
                        hostDirs |-> hostDirs, driveUpdates |-> r.driveUpdates]
            /\ UNCHANGED <<tasks, ops>>
            /\ UNCHANGED matchVars
            /\ UNCHANGED listenerVars

\* The label rewrites update() starts for the volumes named by the Drive's
\* finalizers.
\* gen numbers the reconcile that started them.
LabelTasks(drv, gen) ==
    {[vol |-> TrimPrefix(drv.finalizers[i]),
      label |-> SanitizeDrivePath(drv.Path),
      gen |-> gen,
      attempts |-> 0,
      conflicts |-> 0,
      state |-> "pending"] :
        i \in {j \in DOMAIN drv.finalizers : HasPrefix(drv.finalizers[j])}}

\* update() for the Device observed for the Drive; ok says whether the
\* store accepts the write.
UpdateWith(reports, budget) ==
    /\ ops < budget
    /\ \E dev \in reports, ok \in BOOLEAN :
        LET r == update(drive, dev)
            wrote == r.updated /\ ok
        IN  /\ drive' = IF wrote THEN r.drive ELSE drive
            /\ tasks' = IF wrote /\ r.nameChanged
                        THEN tasks \cup LabelTasks(r.drive, ops + 1)
                        ELSE tasks
            /\ last' = [kind |-> "update", dev |-> dev, drive |-> drive,
                        updated |-> r.updated, wrote |-> wrote,
                        driveUpdates |-> IF r.updated THEN 1 ELSE 0,
                        err |-> IF r.updated /\ ~ok THEN "update drive" ELSE "nil"]
            /\ ops' = ops + 1
            /\ UNCHANGED <<volumes, hostDirs>>
            /\ UNCHANGED matchVars
            /\ UNCHANGED listenerVars

Update == UpdateWith(DeviceReports(drive), MaxReconciles)

\* syncDrive() for the Device observed for the Drive: the updated copy and
\* the verdict are returned to the caller.
SyncDrive ==
    /\ ops < MaxReconciles
    /\ \E dev \in DeviceReports(drive) :
        LET r == syncDrive(dev, drive)
        IN  /\ last' = [kind |-> "syncDrive", dev |-> dev, drive |-> drive,
                        updatedDrive |-> r.drive, err |-> r.err]
            /\ ops' = ops + 1
            /\ UNCHANGED <<drive, volumes, hostDirs, tasks>>
            /\ UNCHANGED matchVars
            /\ UNCHANGED listenerVars

\* One label rewrite started by update(), under RetryOnConflict.
SyncLabel ==
    \E t \in {x \in tasks : x.state = "pending"},
       outcome \in {"ok", "get volume", "conflict"} :
        LET done == outcome = "ok" /\ t.vol \in DOMAIN volumes
        IN  /\ tasks' = (tasks \ {t})
                         \cup {[t EXCEPT !.state = IF done THEN "done" ELSE "failed"]}
            /\ volumes' = IF done
                          THEN [volumes EXCEPT ![t.vol].pathLabel = t.label]
                          ELSE volumes
            /\ last' = [kind |-> "syncLabel", vol |-> t.vol,
                        err |-> IF done THEN "nil"
                                ELSE IF outcome = "ok" THEN "get volume"
                                ELSE outcome]
            /\ UNCHANGED <<drive, hostDirs, ops>>
            /\ UNCHANGED matchVars
            /\ UNCHANGED listenerVars

Next == Remove \/ Update \/ SyncDrive \/ SyncLabel

Spec == Init /\ [][Next]_vars

(***************************************************************************)
(* Claims about volume teardown and drive reconcile.                       *)
(***************************************************************************)
Removed == last.kind = "remove"
RemovedVolume == last.volumes[last.vol]
VolumeFinalizerIndices(drv) ==
    {i \in DOMAIN drv.finalizers : HasPrefix(drv.finalizers[i])}
HoldsFinalizer(drv, name) ==
    \E i \in DOMAIN drv.finalizers : drv.finalizers[i] = DriveFinalizer(name)

\* remove() got as far as releaseVolume, which found the volume's finalizer
\* on the Drive and wrote the Drive back.
Released ==
    /\ Removed
    /\ RemovedVolume.deleted
    /\ ~RemovedVolume.published
    /\ last.err \in {"nil", "update volume"}
    /\ HoldsFinalizer(last.drive, last.vol)

\* C6: releasing a Volume of capacity C from a Drive holding its finalizer
\* gives free = F + C and allocated = A - C, and takes exactly the one
\* finalizer naming the volume off the Drive, the others staying in order.
C6_ReleaseReturnsCapacity ==
    Released =>
        /\ drive.FreeCapacity = last.drive.FreeCapacity + RemovedVolume.TotalCapacity
        /\ drive.AllocatedCapacity =
               last.drive.AllocatedCapacity - RemovedVolume.TotalCapacity
        /\ \E k \in DOMAIN last.drive.finalizers :
              /\ last.drive.finalizers[k] = DriveFinalizer(last.vol)
              /\ drive.finalizers =
                     SubSeq(last.drive.finalizers, 1, k - 1)
                     \o SubSeq(last.drive.finalizers, k + 1,
                               Len(last.drive.finalizers))

\* A release from a Drive that held the data-protection marker and the
\* finalizers of two volumes.
C6_Witness ==
    /\ Released
    /\ Len(last.drive.finalizers) = 3
    /\ Len(drive.finalizers) = 2
    /\ drive.FreeCapacity > last.drive.FreeCapacity

\* C7: remove() leaves the Volume, its Drive and the host directories as
\* they were when the Volume is published (returning an error once deletion
\* is requested) and when the Volume has no deletion timestamp (returning
\* nil).
C7_NoTeardownWhenPublishedOrLive ==
    (Removed /\ (RemovedVolume.published \/ ~RemovedVolume.deleted)) =>
        /\ drive = last.drive
        /\ volumes = last.volumes
        /\ hostDirs = last.hostDirs
        /\ ~RemovedVolume.deleted => last.err = "nil"
        /\ RemovedVolume.deleted => last.err # "nil"

\* remove() ran for a published Volume marked for deletion whose directory
\* exists, on a Drive holding its finalizer.
C7_Witness ==
    /\ Removed
    /\ RemovedVolume.deleted
    /\ RemovedVolume.published
    /\ last.err # "nil"
    /\ last.vol \in hostDirs
    /\ HoldsFinalizer(drive, last.vol)

CapacityOK(drv) ==
    /\ drv.TotalCapacity >= drv.AllocatedCapacity
    /\ drv.AllocatedCapacity >= 0
    /\ drv.FreeCapacity = drv.TotalCapacity - drv.AllocatedCapacity

\* C8: after any sequence of reconciles and volume releases the Drive has
\* TotalCapacity >= AllocatedCapacity >= 0 and
\* FreeCapacity = TotalCapacity - AllocatedCapacity.
C8_CapacityInvariant ==
    /\ CapacityOK(drive)
    /\ last.kind = "syncDrive" => CapacityOK(last.updatedDrive)

\* C9: the number of volume finalizers on the Drive equals the number of
\* Volume records that reference the Drive.
C9_FinalizersMatchVolumes ==
    Cardinality(VolumeFinalizerIndices(drive))
        = Cardinality({n \in DOMAIN volumes : volumes[n].Drive = DriveName})

HwIdentityFields == {"ModelNumber", "SerialNumber", "WWID", "Vendor"}

Reconciled ==
    CASE last.kind = "update" /\ last.wrote -> drive
      [] last.kind = "syncDrive" -> last.updatedDrive
      [] OTHER -> None

\* C10: a reconcile leaves the model number, serial number, WWID and vendor
\* of the Drive as recorded once they are non-empty, whatever the Device
\* reports.
C10_HwIdentityStable ==
    Reconciled # None =>
        \A f \in HwIdentityFields :
            last.drive[f] # "" => Reconciled[f] = last.drive[f]

\* The Drive a reconcile hands on: the record update() wrote, or the copy
\* syncDrive returned without an error.
Accepted ==
    CASE last.kind = "update" /\ last.wrote -> drive
      [] last.kind = "syncDrive" /\ last.err = "nil" -> last.updatedDrive
      [] OTHER -> None

\* C11: a reconcile leaves the DriveStatus of a Drive recorded as InUse,
\* Ready or Terminating as it is, whatever the Device reports.
C11_ProtectedStatusKept ==
    (Accepted # None /\ last.drive.DriveStatus \in Protected) =>
        Accepted.DriveStatus = last.drive.DriveStatus

\* C12: for a Drive recorded as InUse, Ready or Terminating a reconcile
\* changes the recorded mount point only to the managed mount root joined
\* with the Drive's filesystem UUID.
C12_ProtectedMountpointManaged ==
    (/\ Accepted # None
     /\ last.drive.DriveStatus \in Protected
     /\ Accepted.Mountpoint # last.drive.Mountpoint) =>
        /\ Accepted.Mountpoint = JoinMountRoot(Accepted.FilesystemUUID)
        /\ Accepted.FilesystemUUID = last.drive.FilesystemUUID
        /\ UnderDirectCSI(Accepted.Mountpoint)

\* update() wrote a Drive in use whose mount point it changed.
C12_Witness ==
    /\ last.kind = "update"
    /\ last.wrote
    /\ last.drive.DriveStatus = "InUse"
    /\ drive.Mountpoint # last.drive.Mountpoint

\* Every field update() compares holds the value the Device reports.
AgreesWith(drv, dev) ==
    /\ drv.Filesystem = dev.FSType
    /\ drv.TotalCapacity = dev.Size
    /\ drv.ModelNumber = dev.Model
    /\ drv.Path = DevPath(dev.Name)
    /\ drv.RootPartition = dev.Name
    /\ drv.SerialNumber = dev.Serial
    /\ drv.FilesystemUUID = dev.FSUUID
    /\ drv.UeventSerial = dev.UeventSerial
    /\ drv.UeventFSUUID = dev.UeventFSUUID
    /\ drv.WWID = dev.WWID
    /\ drv.Vendor = dev.Vendor
    /\ drv.PartTableType = dev.PTType
    /\ drv.ReadOnly = dev.ReadOnly
    /\ drv.Partitioned = dev.Partitioned
    /\ drv.SwapOn = dev.SwapOn
    /\ drv.Master = dev.Master
    /\ drv.plain = dev.plain
    /\ drv.Mountpoint = dev.FirstMountPoint

\* C13: update() writes nothing when every recorded field equals the value
\* the Device reports and the recomputed status equals the recorded one, and
\* nothing for a Drive in use, ready or terminating whose fields all agree.
C13_NoWriteWhenNothingChanged ==
    (/\ last.kind = "update"
     /\ AgreesWith(last.drive, last.dev)
     /\ \/ driveStatusOf(last.dev) = last.drive.DriveStatus
        \/ last.drive.DriveStatus \in Protected) =>
        /\ ~last.wrote
        /\ ~last.updated
        /\ last.err = "nil"
        /\ drive = last.drive

\* update() ran for a Drive in use against a report that agrees with it.
C13_Witness ==
    /\ last.kind = "update"
    /\ AgreesWith(last.drive, last.dev)
    /\ last.drive.DriveStatus = "InUse"
    /\ ~last.wrote

\* update() ran for an available Drive against a report that agrees with it.
C13_WitnessAvailable ==
    /\ last.kind = "update"
    /\ AgreesWith(last.drive, last.dev)
    /\ last.drive.DriveStatus = "Available"
    /\ driveStatusOf(last.dev) = "Available"
    /\ ~last.wrote

\* C14: a handler whose conditional update of the Drive is refused reads the
\* Drive again and submits the reconcile again (up to a fixed number of
\* attempts) instead of returning after the first refusal.
C14_ConflictIsRetried ==
    (last.kind \in {"update", "remove"} /\ last.err = "update drive") =>
        last.driveUpdates > 1

(***************************************************************************)
(* SpecRename: cross-reference sync.  A Drive in use is renamed by         *)
(* reconciles (the Device reports another name) and the drive-path labels  *)
(* of its Volumes are rewritten, by the tasks update() starts and by the   *)
(* blocking syncVolumeLabels.                                              *)
(***************************************************************************)
MaxRenames == 2

RenameReports(drv) ==
    LET same == DeviceOf(drv)
    IN  {Probed([same EXCEPT !.Name = n]) : n \in DeviceNames}

LabelOutcomes == {"ok", "get volume", "conflict"}

\* syncVolumeLabels from the i-th finalizer on; outcome[v] is how the
\* rewrite of volume v under RetryOnConflict ends.
RECURSIVE syncVolumeLabelsFrom(_, _, _, _, _)
syncVolumeLabelsFrom(drv, vols, outcome, i, attempted) ==
    IF i > Len(drv.finalizers)
    THEN [volumes |-> vols, attempted |-> attempted, err |-> "nil"]
    ELSE IF ~HasPrefix(drv.finalizers[i])
    THEN syncVolumeLabelsFrom(drv, vols, outcome, i + 1, attempted)
    ELSE LET volumeName == TrimPrefix(drv.finalizers[i])
             done == outcome[volumeName] = "ok" /\ volumeName \in DOMAIN vols
         IN  IF done
             THEN syncVolumeLabelsFrom(
                      drv,
                      [vols EXCEPT ![volumeName].pathLabel =
                                        SanitizeDrivePath(drv.Path)],
                      outcome, i + 1, attempted \cup {volumeName})
             ELSE [volumes |-> vols,
                   attempted |-> attempted \cup {volumeName},
                   err |-> IF outcome[volumeName] = "ok" THEN "get volume"
                           ELSE outcome[volumeName]]

syncVolumeLabels(drv, vols, outcome) ==
    syncVolumeLabelsFrom(drv, vols, outcome, 1, {})

InitRename ==
    /\ ListenerIdle
    /\ MatcherIdle
    /\ \E S \in {{"v1"}, {"v1", "v2"}}, dp \in BOOLEAN :
          /\ drive = InitDrive("InUse", dp, S, "a", TRUE)
          /\ volumes = [n \in S |-> InitVolume(n, FALSE, TRUE)]
          /\ hostDirs = S
    /\ tasks = {}
    /\ last = None
    /\ ops = 0

Rename == UpdateWith(RenameReports(drive), MaxRenames)

SyncVolumeLabels ==
    \E outcome \in [VolumeNames -> LabelOutcomes] :
        LET r == syncVolumeLabels(drive, volumes, outcome)
        IN  /\ volumes' = r.volumes
            /\ last' = [kind |-> "syncVolumeLabels", attempted |-> r.attempted,
                        err |-> r.err]
            /\ UNCHANGED <<drive, hostDirs, tasks, ops>>
            /\ UNCHANGED matchVars
            /\ UNCHANGED listenerVars

NextRename == Rename \/ SyncLabel \/ SyncVolumeLabels

SpecRename == InitRename /\ [][NextRename]_vars

(***************************************************************************)
(* Claims about cross-reference sync.                                      *)
(***************************************************************************)
NamedVolumes(drv) ==
    {TrimPrefix(drv.finalizers[i]) : i \in VolumeFinalizerIndices(drv)}

LabelsInSync ==
    \A v \in NamedVolumes(drive) :
        v \in DOMAIN volumes /\ volumes[v].pathLabel = drive.pathLabel

\* C15: once every label task started by the renaming reconciles has
\* completed without error, each Volume named by a finalizer of the Drive
\* carries the Drive's current path label.
C15_LabelsFollowRename ==
    (tasks # {} /\ \A t \in tasks : t.state = "done") => LabelsInSync

\* C16: a failed label rewrite for one Volume does not keep the rewrite of
\* any other Volume named by the Drive's finalizers from being attempted.
C16_LabelFailuresIndependent ==
    last.kind = "syncVolumeLabels" => NamedVolumes(drive) \subseteq last.attempted

(***************************************************************************)
(* SpecHandle: driveEventHandler.Handle for device events, over the Drives *)
(* the store lists for the device.                                         *)
(***************************************************************************)
MaxEvents == 1

Actions == {"add", "change", "remove"}

\* An event: its ACTION, whether its DEVPATH names a loopback device, and
\* whether createDevice can build the Device from it.
Events == [action : Actions, loop : BOOLEAN, parse : BOOLEAN]

\* The store call of Handle that fails, if any.
HandleFailures == {"none", "list", "create"}

neverRemove(action) == FALSE

\* event["ACTION"] == uevent.Remove
isRemove(action) == action = "remove"

\* findMatchingDrive: the matching algorithm is not called.
findMatchingDrive(drvs, dev) == [drive |-> None, err |-> "errNoMatchFound"]

\* The identity fields of the Drive that add() creates for a Device.
NewDirectCSIDriveStatus(dev) ==
    [PartitionNum |-> dev.Partition, UeventSerial |-> dev.UeventSerial,
     WWID |-> dev.WWID, ModelNumber |-> dev.Model, Vendor |-> dev.Vendor,
     PartTableUUID |-> dev.PTUUID, PartTableType |-> dev.PTType,
     PartitionUUID |-> dev.PartUUID, DMUUID |-> dev.DMUUID,
     MDUUID |-> dev.MDUUID, UeventFSUUID |-> dev.UeventFSUUID,
     FilesystemUUID |-> dev.FSUUID, SerialNumber |-> dev.Serial,
     LogicalBlockSize |-> dev.LogicalBlockSize]

\* add(): the Drives of the store afterwards and the error returned.
add(drvs, dev, fail) ==
    IF fail = "create"
    THEN [drives |-> drvs, err |-> "create drive", created |-> 0, updated |-> 0]
    ELSE [drives |-> Append(drvs, NewDirectCSIDriveStatus(dev)), err |-> "nil",
          created |-> 1, updated |-> 0]

Handle(ev, dev, drvs, fail) ==
    LET same(err) == [drives |-> drvs, err |-> err, created |-> 0, updated |-> 0]
        found == findMatchingDrive(drvs, dev)
    IN  CASE ev.loop -> same("nil")
          [] ~ev.loop /\ ~ev.parse -> same("nil")
          [] ~ev.loop /\ ev.parse /\ fail = "list" -> same("list drives")
          [] ~ev.loop /\ ev.parse /\ fail # "list"
                /\ found.err = "errNoMatchFound" ->
                IF isRemove(ev.action) THEN same("nil") ELSE add(drvs, dev, fail)
          [] ~ev.loop /\ ev.parse /\ fail # "list" /\ found.err = "nil" ->
                IF isRemove(ev.action)
                THEN same("nil")
                ELSE [drives |-> drvs, err |-> "nil", created |-> 0, updated |-> 1]
          [] OTHER -> same(found.err)

HandleFocus ==
    {[props |-> {"WWID"}, lbs |-> FALSE], [props |-> {}, lbs |-> TRUE]}

InitHandle ==
    /\ ListenerIdle
    /\ \E F \in HandleFocus :
          /\ device \in DevicesOn(F)
          /\ drives \in SeqsUpTo(DrivesOn(F), MaxDrives)
    /\ matchRes = None
    /\ probe = None
    /\ StoreIdle

HandleEvent ==
    /\ ops < MaxEvents
    /\ \E ev \in Events, fail \in HandleFailures :
        LET r == Handle(ev, device, drives, fail)
        IN  /\ drives' = r.drives
            /\ last' = [kind |-> "handle", event |-> ev, fail |-> fail,
                        drives |-> drives, err |-> r.err,
                        created |-> r.created, updated |-> r.updated]
            /\ ops' = ops + 1
            /\ UNCHANGED <<device, matchRes, probe>>
            /\ UNCHANGED <<drive, volumes, hostDirs, tasks>>
            /\ UNCHANGED listenerVars

NextHandle == HandleEvent

SpecHandle == InitHandle /\ [][NextHandle]_vars

(***************************************************************************)
(* Claims about Handle.                                                    *)
(***************************************************************************)
\* Handle got past the loopback test, createDevice and the store calls.
Handled ==
    /\ last.kind = "handle"
    /\ ~last.event.loop
    /\ last.event.parse
    /\ last.fail = "none"

\* The Drives listed for the event that the matchers classify as matched.
MatchedBefore ==
    {i \in DOMAIN last.drives : classify(device, last.drives[i]) = "match"}

\* C17: with no matching Drive an add or change event creates exactly one
\* Drive; with more than one matching Drive the handler returns the
\* ambiguity error and creates and updates nothing.
C17_CreateOnlyWhenNoMatch ==
    Handled =>
        /\ (MatchedBefore = {} /\ last.event.action # "remove") =>
              /\ Len(drives) = Len(last.drives) + 1
              /\ last.created = 1
        /\ Cardinality(MatchedBefore) > 1 =>
              /\ last.err = "tooManyMatches"
              /\ drives = last.drives
              /\ last.created = 0
              /\ last.updated = 0

\* C18: an event whose action is remove creates, updates and deletes no
\* Drive and no Volume, however many Drives match the device.
C18_RemoveEventChangesNothing ==
    (last.kind = "handle" /\ last.event.action = "remove") =>
        /\ drives = last.drives
        /\ last.created = 0
        /\ last.updated = 0
        /\ drive = None
        /\ volumes = << >>

\* A remove event was handled for a device that two listed Drives match.
C18_Witness ==
    /\ Handled
    /\ last.event.action = "remove"
    /\ Cardinality(MatchedBefore) = 2
    /\ last.err = "nil"

(***************************************************************************)
(* Claims about the status after a release and about Drives without        *)
(* identity.                                                               *)
(***************************************************************************)
\* remove() called releaseVolume and releaseVolume returned nil.
ReleaseRan ==
    /\ Removed
    /\ RemovedVolume.deleted
    /\ ~RemovedVolume.published
    /\ last.err \in {"nil", "update volume"}

\* C19: releaseVolume sets the Drive Ready exactly when it found the
\* volume's finalizer on the Drive and the data-protection marker is the only
\* finalizer left; otherwise it leaves DriveStatus as it was.
C19_ReadyOnLastRelease ==
    ReleaseRan =>
        IF /\ HoldsFinalizer(last.drive, last.vol)
           /\ drive.finalizers = <<DirectCSIDriveFinalizerDataProtection>>
        THEN drive.DriveStatus = "Ready"
        ELSE drive.DriveStatus = last.drive.DriveStatus

\* The last volume of a Drive in use was released, the marker staying.
C19_Witness ==
    /\ ReleaseRan
    /\ HoldsFinalizer(last.drive, last.vol)
    /\ drive.finalizers = <<DirectCSIDriveFinalizerDataProtection>>
    /\ last.drive.DriveStatus = "InUse"
    /\ drive.DriveStatus = "Ready"

\* A release that left another volume's finalizer, from a Drive in use.
C19_WitnessOthersRemain ==
    /\ ReleaseRan
    /\ HoldsFinalizer(last.drive, last.vol)
    /\ Len(drive.finalizers) = 2
    /\ drive.DriveStatus = "InUse"

\* C20: when no candidate Drive has an identity field set, runMatcher returns
\* "no match" for any Device, whether there is one such Drive or several.
C20_NoIdentityNoMatch ==
    (/\ matchRes # None
     /\ Len(drives) > 0
     /\ \A i \in DOMAIN drives : drives[i] = EmptyDriveId) =>
        matchRes.kind = "errNoMatchFound"

(***************************************************************************)
(* Claims about single scenarios of the aggregate matcher and about the    *)
(* matchers that compare numbers and partition tables.                     *)
(***************************************************************************)
\* the one Drive that records the Device's WWID and Model and nothing else
SameWwidAndModel ==
    /\ Len(drives) = 1
    /\ device.WWID # ""
    /\ device.Model # ""
    /\ drives[1] = [EmptyDriveId EXCEPT !.WWID = device.WWID,
                                        !.ModelNumber = device.Model]

\* C21: a Device with a WWID and a Model, matched against a single Drive that
\* records the same WWID and Model and has every other identity field empty,
\* makes runMatcher return that Drive.
C21_SameWwidAndModelMatch ==
    (matchRes # None /\ SameWwidAndModel) =>
        (matchRes.kind = "drive" /\ matchRes.drive = 1)

NumberProbe == IsProbe /\ ProbeProp \in {"Partition", "LogicalBlockSize"}

NumbersEqual(p) ==
    IF p = "Partition"
    THEN drives[1].PartitionNum = device.Partition
    ELSE drives[1].LogicalBlockSize = device.LogicalBlockSize

\* C22: partitionNumberMatcher and logicalBlocksizeMatcher are never
\* inconclusive: for every pair of values, both zero included, each reports
\* match when the Drive's value equals the Device's and no-match otherwise.
C22_NumbersAlwaysConclusive ==
    NumberProbe =>
        IF NumbersEqual(ProbeProp) THEN IsMatch(probe.res)
                                   ELSE IsNoMatch(probe.res)

PartTableProbe ==
    /\ probe.kind \in {"matcher", "first"}
    /\ probe.fn = "partitionTableUUIDMatcher"

\* C23: partitionTableUUIDMatcher is inconclusive whenever the Drive's
\* partition-table UUID or partition-table type is empty; otherwise it is
\* conclusive: match exactly when the UUIDs are equal and the types are equal
\* under ptTypeEqual, no-match otherwise.
C23_PartTableMatcher ==
    PartTableProbe =>
        IF DriveEmpty("PT") THEN Inconclusive(probe.res)
        ELSE IF ValuesEqual("PT") THEN IsMatch(probe.res)
        ELSE IsNoMatch(probe.res)

(***************************************************************************)
(* The wire decoder of the event socket listener (pkg/uevent/listener.go). *)
(* A buffer is a sequence of bytes; strings are written as their ASCII     *)
(* bytes.  Go indexes from 0: msg[16] is the 17th element here.            *)
(***************************************************************************)
MaxFields == 2

\* []byte(s) for the strings that occur in the modelled events
Bytes(s) ==
    CASE s = "SUBSYSTEM" -> <<83, 85, 66, 83, 89, 83, 84, 69, 77>>
      [] s = "ACTION" -> <<65, 67, 84, 73, 79, 78>>
      [] s = "MAJOR" -> <<77, 65, 74, 79, 82>>
      [] s = "MINOR" -> <<77, 73, 78, 79, 82>>
      [] s = "DEVPATH" -> <<68, 69, 86, 80, 65, 84, 72>>
      [] s = "ID_PART_ENTRY_NUMBER" -> <<73, 68, 95, 80, 65, 82, 84, 95, 69, 78, 84, 82, 89, 95, 78, 85, 77, 66, 69, 82>>
      [] s = "block" -> <<98, 108, 111, 99, 107>>
      [] s = "net" -> <<110, 101, 116>>
      [] s = "add" -> <<97, 100, 100>>
      [] s = "change" -> <<99, 104, 97, 110, 103, 101>>
      [] s = "remove" -> <<114, 101, 109, 111, 118, 101>>
      [] s = "bind" -> <<98, 105, 110, 100>>
      [] s = "8" -> <<56>>
      [] s = "0" -> <<48>>
      [] s = "1" -> <<49>>
      [] s = "x" -> <<120>>
      [] s = "/devices/sda" -> <<47, 100, 101, 118, 105, 99, 101, 115, 47, 115, 100, 97>>
      [] s = "/devices/sda/sda1" -> <<47, 100, 101, 118, 105, 99, 101, 115, 47, 115, 100, 97, 47, 115, 100, 97, 49>>
      [] s = "sda" -> <<115, 100, 97>>
      [] s = "sda1" -> <<115, 100, 97, 49>>
      [] s = "" -> << >>

libudev == <<108, 105, 98, 117, 100, 101, 118, 0>>
\* 0xfeedcafe, held as its two 16-bit halves 0xfeed and 0xcafe
libudevMagic == <<65261, 51966>>
minMsgLen == 40
fieldDelimiter == 0
EqualsSign == 61

anyPrefix(b, prefix) == TRUE

\* bytes.HasPrefix
HasBytesPrefix(b, prefix) ==
    /\ Len(b) >= Len(prefix)
    /\ SubSeq(b, 1, Len(prefix)) = prefix

\* binary.BigEndian.Uint32 of a slice with at least four bytes
Uint32(b) == <<b[1] * 256 + b[2], b[3] * 256 + b[4]>>

RECURSIVE IndexByteFrom(_, _, _)
IndexByteFrom(b, c, i) ==
    IF i > Len(b) THEN 0
    ELSE IF b[i] = c THEN i
    ELSE IndexByteFrom(b, c, i + 1)

\* position of the first byte c in b, 0 when there is none
IndexByte(b, c) == IndexByteFrom(b, c, 1)

RECURSIVE Split(_, _)
\* bytes.Split(b, sep) for a one-byte separator
Split(b, sep) ==
    LET i == IndexByte(b, sep)
    IN  IF i = 0 THEN <<b>>
        ELSE <<SubSeq(b, 1, i - 1)>> \o Split(SubSeq(b, i + 1, Len(b)), sep)

\* strings.SplitN(field, "=", 2)
SplitN2(field) ==
    LET i == IndexByte(field, EqualsSign)
    IN  IF i = 0 THEN <<field>>
        ELSE <<SubSeq(field, 1, i - 1), SubSeq(field, i + 1, Len(field))>>

\* event[k] = v
Put(event, k, v) ==
    [x \in DOMAIN event \cup {k} |-> IF x = k THEN v ELSE event[x]]

\* event[k] of a Go map: the zero value when the key is absent
Get(event, k) == IF k \in DOMAIN event THEN event[k] ELSE << >>

RECURSIVE parseFields(_, _, _)
parseFields(fields, i, event) ==
    IF i > Len(fields) THEN event
    ELSE IF Len(fields[i]) = 0 THEN parseFields(fields, i + 1, event)
    ELSE LET tokens == SplitN2(fields[i])
         IN  parseFields(fields, i + 1,
                 Put(event, tokens[1],
                     IF Len(tokens) = 2 THEN tokens[2] ELSE << >>))

EmptyEvent == [x \in {} |-> << >>]

ParseError(e) == [kind |-> "error", err |-> e]

\* parse(msg): a key/value mapping, an error, or a run-time panic of an
\* index or slice expression that is out of range
parse(m) ==
    IF ~HasBytesPrefix(m, libudev)
    THEN ParseError("libudev signature not found")
    ELSE IF Len(m) - 8 < 4
    THEN [kind |-> "panic"]
    ELSE IF Uint32(SubSeq(m, 9, Len(m))) # libudevMagic
    THEN ParseError("libudev magic mismatch")
    ELSE IF Len(m) <= 16
    THEN [kind |-> "panic"]
    ELSE LET offset == m[17]
         IN  IF offset < 17
             THEN ParseError("payload offset is not more than 17")
             ELSE IF offset > Len(m)
             THEN ParseError("payload offset beyond message length")
             ELSE [kind |-> "event",
                   event |-> parseFields(
                       Split(SubSeq(m, offset + 1, Len(m)), fieldDelimiter),
                       1, EmptyEvent)]

(***************************************************************************)
(* Datagrams: a 40-byte libudev header followed by NUL-terminated tokens,  *)
(* possibly cut short.                                                     *)
(***************************************************************************)
Zeros(n) == [i \in 1..n |-> 0]

Token(k, v) == Bytes(k) \o <<EqualsSign>> \o Bytes(v) \o <<fieldDelimiter>>
BareToken(k) == Bytes(k) \o <<fieldDelimiter>>

RECURSIVE Concat(_)
Concat(ss) == IF ss = << >> THEN << >> ELSE Head(ss) \o Concat(Tail(ss))

Signatures == {libudev, <<108, 105, 98, 117, 100, 101, 118, 1>>}
\* the magic in network byte order, and in the opposite order
Magics == {<<254, 237, 202, 254>>, <<254, 202, 237, 254>>}
OffsetBytes == {0, 16, 17, 40, 41, 255}

Header(sig, magic, off) ==
    sig \o magic \o Zeros(4) \o <<off>> \o Zeros(minMsgLen - 17)

ParseTokens ==
    {Token("SUBSYSTEM", "block"), Token("ACTION", "add"),
     Token("ACTION", "remove"), BareToken("ACTION")}

Datagrams ==
    {Header(sig, magic, off) \o Concat(toks) :
        sig \in Signatures, magic \in Magics, off \in OffsetBytes,
        toks \in SeqsUpTo(ParseTokens, MaxFields)}

Prefixes(b) == {SubSeq(b, 1, n) : n \in 0..Len(b)}

(***************************************************************************)
(* SpecParse: parse applied to one buffer.                                 *)
(***************************************************************************)
ParseIdle ==
    /\ parsed = None
    /\ ctx = "live"
    /\ sock = << >>
    /\ queue = << >>
    /\ reader = None
    /\ worker = None
    /\ handled = << >>

InitParse ==
    /\ MatcherIdle
    /\ StoreIdle
    /\ ParseIdle
    /\ \E d \in Datagrams : msg \in Prefixes(d)

Parse ==
    /\ parsed = None
    /\ parsed' = parse(msg)
    /\ UNCHANGED <<msg, ctx, sock, queue, reader, worker, handled>>
    /\ UNCHANGED matchVars
    /\ UNCHANGED storeVars

NextParse == Parse

SpecParse == InitParse /\ [][NextParse]_vars

(***************************************************************************)
(* Claims about the wire decoder.                                          *)
(***************************************************************************)
HasSignature(b) == Len(b) >= 8 /\ SubSeq(b, 1, 8) = libudev
HasMagicField(b) == Len(b) >= 12
MagicOK(b) == HasMagicField(b) /\ SubSeq(b, 9, 12) = <<254, 237, 202, 254>>
HasOffsetField(b) == Len(b) >= 17
OffsetOK(b) == HasOffsetField(b) /\ b[17] > 16 /\ b[17] <= Len(b)

\* C24: parse returns an error and no mapping for every buffer without the
\* signature, for every buffer whose bytes 8-11 differ from the magic, and for
\* every buffer whose offset byte is not above 16 or exceeds the length; it
\* returns a mapping only when all three checks pass; the three failures give
\* three different errors.
C24_ParseChecks ==
    parsed # None =>
        /\ ~HasSignature(msg) =>
                parsed = ParseError("libudev signature not found")
        /\ (HasSignature(msg) /\ HasMagicField(msg) /\ ~MagicOK(msg)) =>
                parsed = ParseError("libudev magic mismatch")
        /\ (HasSignature(msg) /\ MagicOK(msg) /\ HasOffsetField(msg)
                /\ ~OffsetOK(msg)) =>
                /\ parsed.kind = "error"
                /\ parsed.err \in {"payload offset is not more than 17",
                                   "payload offset beyond message length"}
        /\ parsed.kind = "event" =>
                HasSignature(msg) /\ MagicOK(msg) /\ OffsetOK(msg)
        /\ (HasSignature(msg) /\ MagicOK(msg) /\ OffsetOK(msg)) =>
                parsed.kind = "event"

C24_Witness ==
    /\ parsed.kind = "error"
    /\ parsed.err = "libudev magic mismatch"
    /\ Len(msg) >= minMsgLen

C24_WitnessOffset ==
    /\ parsed.kind = "error"
    /\ parsed.err = "payload offset beyond message length"

C24_WitnessEvent ==
    /\ parsed.kind = "event"
    /\ Bytes("ACTION") \in DOMAIN parsed.event
    /\ parsed.event[Bytes("ACTION")] = Bytes("remove")

\* C25: a buffer shorter than minMsgLen, one that carries the signature but
\* ends before byte 12 or before byte 17 included, is rejected with a decode
\* error.
C25_ShortIsRejected ==
    (parsed # None /\ Len(msg) < minMsgLen) => parsed.kind = "error"

(***************************************************************************)
(* The event socket listener: Run, getNextDeviceUEvent and the decoders    *)
(* parseUdevData and unmarshalDeviceUevent of pkg/uevent/listener.go.      *)
(* The queue and processEvents are not part of the sources at hand and     *)
(* follow the description of the scheduling model.                         *)
(***************************************************************************)
MaxDatagrams == 2

ueventAdd == Bytes("add")
ueventChange == Bytes("change")
ueventRemove == Bytes("remove")

errNonDeviceEvent == ParseError("Uevent is not for a block device")

IsDigit(c) == c >= 48 /\ c <= 57

RECURSIVE DigitsValue(_, _)
DigitsValue(b, acc) ==
    IF b = << >> THEN acc
    ELSE DigitsValue(Tail(b), acc * 10 + (Head(b) - 48))

\* strconv.Atoi for unsigned decimal strings
Atoi(b) ==
    IF b # << >> /\ \A i \in DOMAIN b : IsDigit(b[i])
    THEN [err |-> FALSE, value |-> DigitsValue(b, 0)]
    ELSE [err |-> TRUE, value |-> 0]

AtoiError == ParseError("strconv.Atoi: invalid syntax")

UdevData(source, action, major, minor, partition) ==
    [kind |-> "data", source |-> source, action |-> action,
     Major |-> major, Minor |-> minor, Partition |-> partition]

\* udev.ReadRunUdevData: the record under /run/udev/data/b<major>:<minor>
ReadRunUdevData(action, major, minor, disk) ==
    IF disk = "present"
    THEN UdevData("run-udev-data", action, major, minor, 0)
    ELSE ParseError("read /run/udev/data")

\* udev.EventMapToUdevData: the record built from the event's own fields
EventMapToUdevData(eventMap) ==
    LET major == Atoi(Get(eventMap, Bytes("MAJOR")))
        minor == Atoi(Get(eventMap, Bytes("MINOR")))
    IN  IF major.err \/ minor.err THEN AtoiError
        ELSE UdevData("event", Get(eventMap, Bytes("ACTION")),
                      major.value, minor.value, 0)

acceptAction(eventMap) == EventMapToUdevData(eventMap)

\* the default arm of the switch on ACTION
invalidAction(eventMap) == ParseError("invalid device action")

anyAction(action) == TRUE

isAddOrChange(action) == action \in {ueventAdd, ueventChange}

\* listener.parseUdevData
parseUdevData(buf, disk) ==
    LET r == parse(buf)
    IN  IF r.kind # "event" THEN r
        ELSE LET eventMap == r.event
                 action == Get(eventMap, Bytes("ACTION"))
                 major == Atoi(Get(eventMap, Bytes("MAJOR")))
                 minor == Atoi(Get(eventMap, Bytes("MINOR")))
             IN  IF Get(eventMap, Bytes("SUBSYSTEM")) = Bytes("block")
                 THEN errNonDeviceEvent
                 ELSE CASE isAddOrChange(action) ->
                            IF major.err \/ minor.err THEN AtoiError
                            ELSE ReadRunUdevData(action, major.value,
                                                 minor.value, disk)
                        [] ~isAddOrChange(action) /\ action = ueventRemove ->
                            EventMapToUdevData(eventMap)
                        [] OTHER -> invalidAction(eventMap)

\* listener.unmarshalDeviceUevent; its switch names the third action by an
\* identifier declared outside this file, taken to be the remove action
unmarshalDeviceUevent(buf) ==
    LET r == parse(buf)
    IN  IF r.kind # "event" THEN r
        ELSE LET eventMap == r.event
                 action == Get(eventMap, Bytes("ACTION"))
                 major == Atoi(Get(eventMap, Bytes("MAJOR")))
                 minor == Atoi(Get(eventMap, Bytes("MINOR")))
                 found == Bytes("ID_PART_ENTRY_NUMBER") \in DOMAIN eventMap
                 partition ==
                     Atoi(Get(eventMap, Bytes("ID_PART_ENTRY_NUMBER")))
             IN  IF Get(eventMap, Bytes("SUBSYSTEM")) = Bytes("block")
                 THEN errNonDeviceEvent
                 ELSE IF major.err \/ minor.err THEN AtoiError
                 ELSE IF action \notin {ueventAdd, ueventChange, ueventRemove}
                 THEN ParseError("invalid action")
                 ELSE IF found /\ partition.err THEN AtoiError
                 ELSE UdevData("event", action, major.value, minor.value,
                               IF found THEN partition.value ELSE 0)

Decoders == {"parseUdevData", "unmarshalDeviceUevent"}

decode(decoder, buf, disk) ==
    IF decoder = "parseUdevData" THEN parseUdevData(buf, disk)
    ELSE unmarshalDeviceUevent(buf)

(***************************************************************************)
(* Datagrams of the listener: well-framed events that differ in one field, *)
(* and one datagram with a wrong magic.                                    *)
(***************************************************************************)
Fields(subsystem, action, major, minor) ==
    Token("SUBSYSTEM", subsystem) \o Token("ACTION", action)
        \o Token("MAJOR", major) \o Token("MINOR", minor)

Frame(payload) == Header(libudev, <<254, 237, 202, 254>>, minMsgLen) \o payload

Subsystems == {"block", "net"}

EventDatagrams ==
    {Frame(Fields(sub, a, "8", "0")) :
        sub \in Subsystems, a \in {"add", "change", "remove", "bind"}}
    \cup {Frame(Token("SUBSYSTEM", sub) \o Token("MAJOR", "8")
                \o Token("MINOR", "0")) : sub \in Subsystems}
    \cup {Frame(Fields(sub, a, "x", "0")) :
            sub \in Subsystems, a \in {"add", "remove"}}
    \cup {Frame(Fields(sub, "add", "8", "x")) : sub \in Subsystems}
    \cup {Frame(Fields(sub, "add", "8", "0")
                \o Token("ID_PART_ENTRY_NUMBER", n)) :
            sub \in Subsystems, n \in {"1", "x"}}
    \cup {Header(libudev, <<254, 202, 237, 254>>, minMsgLen)
            \o Fields("block", "add", "8", "0")}

Disks == {"present", "absent"}

(***************************************************************************)
(* SpecListener.                                                           *)
(***************************************************************************)
InitListener ==
    /\ MatcherIdle
    /\ StoreIdle
    /\ msg = << >>
    /\ parsed = None
    /\ ctx = "live"
    /\ sock = << >>
    /\ queue = << >>
    /\ \E dec \in Decoders :
          reader = [decoder |-> dec, pc |-> "socket", err |-> "nil",
                    reads |-> 0, pushed |-> 0, opened |-> FALSE,
                    closes |-> 0]
    /\ worker = [pc |-> "idle"]
    /\ handled = << >>

SocketFailures == {"none", "socket", "bind"}

\* Run up to its loop: syscall.Socket, syscall.Bind, the listener value and
\* `go listener.processEvents(ctx)`
OpenSocket ==
    /\ reader.pc = "socket"
    /\ \E fail \in SocketFailures :
          /\ reader' =
                CASE fail = "socket" ->
                        [reader EXCEPT !.pc = "returned", !.err = "socket"]
                  [] fail = "bind" ->
                        [reader EXCEPT !.pc = "returned", !.err = "bind",
                                       !.opened = TRUE]
                  [] OTHER ->
                        [reader EXCEPT !.pc = "select", !.opened = TRUE]
          /\ worker' = IF fail = "none" THEN [worker EXCEPT !.pc = "running"]
                       ELSE worker
    /\ UNCHANGED <<msg, parsed, ctx, sock, queue, handled>>
    /\ UNCHANGED matchVars
    /\ UNCHANGED storeVars

\* the kernel sends a datagram to the socket
Arrive ==
    /\ reader.opened
    /\ Len(sock) + reader.reads < MaxDatagrams
    /\ \E d \in EventDatagrams : sock' = Append(sock, d)
    /\ UNCHANGED <<msg, parsed, ctx, queue, reader, worker, handled>>
    /\ UNCHANGED matchVars
    /\ UNCHANGED storeVars

\* the caller cancels the context
Cancel ==
    /\ ctx = "live"
    /\ ctx' = "canceled"
    /\ UNCHANGED <<msg, parsed, sock, queue, reader, worker, handled>>
    /\ UNCHANGED matchVars
    /\ UNCHANGED storeVars

\* Run: the select at the head of the loop
Select ==
    /\ reader.pc = "select"
    /\ reader' = IF ctx = "canceled"
                 THEN [reader EXCEPT !.pc = "returned",
                                     !.err = "context canceled"]
                 ELSE [reader EXCEPT !.pc = "read"]
    /\ UNCHANGED <<msg, parsed, ctx, sock, queue, worker, handled>>
    /\ UNCHANGED matchVars
    /\ UNCHANGED storeVars

\* what one turn of the loop of getNextDeviceUEvent, and Run after it, do
\* with the decoder's result r
afterRead(rd, q, r) ==
    LET rd1 == [rd EXCEPT !.reads = @ + 1]
    IN  CASE r.kind = "data" ->
                [queue |-> Append(q, r),
                 reader |-> [rd1 EXCEPT !.pc = "select", !.pushed = @ + 1]]
          [] r = errNonDeviceEvent ->
                [queue |-> q, reader |-> rd1]
          [] r.kind = "panic" ->
                [queue |-> q, reader |-> [rd1 EXCEPT !.pc = "panicked"]]
          [] OTHER ->
                [queue |-> q,
                 reader |-> [rd1 EXCEPT !.pc = "returned", !.err = r.err]]

\* getNextDeviceUEvent: one turn of its loop.  ReadMsg blocks in Recvfrom
\* until a datagram is waiting.
GetNextDeviceUEvent ==
    /\ reader.pc = "read"
    /\ sock # << >>
    /\ \E disk \in Disks :
          /\ parsed' = decode(reader.decoder, Head(sock), disk)
          /\ queue' = afterRead(reader, queue, parsed').queue
          /\ reader' = afterRead(reader, queue, parsed').reader
    /\ msg' = Head(sock)
    /\ sock' = Tail(sock)
    /\ UNCHANGED <<ctx, worker, handled>>
    /\ UNCHANGED matchVars
    /\ UNCHANGED storeVars

\* ReadMsg: Recvfrom in msgPeek or msgRead returns an error
ReadError ==
    /\ reader.pc = "read"
    /\ reader' = [reader EXCEPT !.pc = "returned", !.err = "recvfrom"]
    /\ UNCHANGED <<msg, parsed, ctx, sock, queue, worker, handled>>
    /\ UNCHANGED matchVars
    /\ UNCHANGED storeVars

\* processEvents: pop one event and invoke the handler with it
ProcessEvent ==
    /\ worker.pc = "running"
    /\ ctx = "live"
    /\ queue # << >>
    /\ handled' = Append(handled, Head(queue))
    /\ queue' = Tail(queue)
    /\ UNCHANGED <<msg, parsed, ctx, sock, reader, worker>>
    /\ UNCHANGED matchVars
    /\ UNCHANGED storeVars

\* processEvents: leave when the context is canceled
WorkerExit ==
    /\ worker.pc = "running"
    /\ ctx = "canceled"
    /\ worker' = [worker EXCEPT !.pc = "exited"]
    /\ UNCHANGED <<msg, parsed, ctx, sock, queue, reader, handled>>
    /\ UNCHANGED matchVars
    /\ UNCHANGED storeVars

NextListener ==
    \/ OpenSocket \/ Arrive \/ Cancel \/ Select \/ GetNextDeviceUEvent
    \/ ReadError \/ ProcessEvent \/ WorkerExit

SpecListener == InitListener /\ [][NextListener]_vars

\* Every task of the listener keeps taking the steps it can take; for the
\* read loop blocked in Recvfrom that is: a waiting datagram is consumed
\* (the only step of NextListener that shortens sock).  Nothing obliges the
\* kernel to send a datagram.
SpecListenerLive ==
    /\ SpecListener
    /\ WF_vars(OpenSocket)
    /\ WF_vars(Select)
    /\ WF_sock(reader.pc = "read" /\ sock # << >> /\ sock' = Tail(sock))
    /\ WF_vars(ProcessEvent)
    /\ WF_vars(WorkerExit)

(***************************************************************************)
(* Claims about the listener.  After a turn of getNextDeviceUEvent, msg is *)
(* the datagram it consumed and parsed is what the decoder returned.       *)
(***************************************************************************)
Decoded == parsed # None /\ parse(msg).kind = "event"
EventOf(b) == parse(b).event
IsBlockEvent(b) == Get(EventOf(b), Bytes("SUBSYSTEM")) = Bytes("block")
ActionOf(b) == Get(EventOf(b), Bytes("ACTION"))
UeventActions == {ueventAdd, ueventChange, ueventRemove}

\* C26: the read loop skips exactly the decoded events that are not
\* block-device events; a decoded block-device event is never skipped.
C26_SkipsOnlyNonBlockEvents ==
    Decoded => ((parsed = errNonDeviceEvent) <=> ~IsBlockEvent(msg))

\* C27: an event whose major, minor or partition number is not a number is
\* dropped on its own: the read loop does not return because of it.
C27_BadNumberDropsOneEvent ==
    (Decoded /\ parsed = AtoiError) => reader.pc # "returned"

C28_WitnessRemove ==
    /\ Len(handled) > 0
    /\ handled[1].action = ueventRemove

\* C29: the record of a remove event is built from the event's own fields,
\* never from the on-disk record, which is read only for add and change.
C29_RemoveFromEventFields ==
    (Decoded /\ parsed.kind = "data") =>
        /\ ActionOf(msg) = ueventRemove => parsed.source = "event"
        /\ parsed.source = "run-udev-data" =>
                ActionOf(msg) \in {ueventAdd, ueventChange}

C29_Witness ==
    /\ Decoded
    /\ reader.decoder = "parseUdevData"
    /\ ActionOf(msg) = ueventRemove
    /\ parsed.kind = "data"
    /\ parsed.source = "event"

C29_WitnessAdd ==
    /\ Decoded
    /\ ActionOf(msg) = ueventAdd
    /\ parsed.kind = "data"
    /\ parsed.source = "run-udev-data"

\* C30: once the context is canceled, the read loop and the worker
\* eventually exit, even if no further datagram arrives.
C30_CancelStopsListener ==
    (ctx = "canceled") ~>
        (reader.pc \in {"returned", "panicked"} /\ worker.pc # "running")

\* Run has returned (or its goroutine has crashed)
ListenerExited == reader.pc \in {"returned", "panicked"}

\* C31: on every exit path of the listener after the socket was opened
\* (cancellation, read error, decode error, bind failure) the socket has
\* been closed exactly once.
C31_SocketClosedOnce ==
    (ListenerExited /\ reader.opened) => reader.closes = 1

(***************************************************************************)
(* The label rewrites of update(), one attempt at a time.                   *)
(***************************************************************************)
\* retry.DefaultRetry.Steps: the attempts RetryOnConflict makes
DefaultRetrySteps == 5
MaxAttempts == 6

retryAlways(attempts, err) == err = "conflict"

\* RetryOnConflict: another attempt follows a conflict while steps remain
shouldRetry(attempts, err) == err = "conflict" /\ attempts < DefaultRetrySteps

\* One run of the updateLabels closure for one started rewrite, and what
\* RetryOnConflict and the goroutine do with its error.
Attempt ==
    \E t \in {x \in tasks : x.state = "pending"}, outcome \in LabelOutcomes :
        LET n == t.attempts + 1
            err == IF outcome = "ok"
                   THEN (IF t.vol \in DOMAIN volumes THEN "nil" ELSE "get volume")
                   ELSE outcome
            again == shouldRetry(n, err)
        IN  /\ t.attempts < MaxAttempts
            /\ tasks' = (tasks \ {t})
                         \cup {[t EXCEPT !.attempts = n,
                                         !.conflicts = IF err = "conflict"
                                                       THEN @ + 1 ELSE @,
                                         !.state = IF err = "nil" THEN "done"
                                                   ELSE IF again THEN "pending"
                                                   ELSE "failed"]}
            /\ volumes' = IF err = "nil"
                          THEN [volumes EXCEPT ![t.vol].pathLabel = t.label]
                          ELSE volumes
            /\ last' = [kind |-> "attempt", vol |-> t.vol, gen |-> t.gen,
                        err |-> err, logged |-> err # "nil" /\ ~again]
            /\ UNCHANGED <<drive, hostDirs, ops>>
            /\ UNCHANGED matchVars
            /\ UNCHANGED listenerVars

Reconcile == UpdateWith(RenameReports(drive), MaxReconciles)

NextRetry == Reconcile \/ Attempt

SpecRetry == InitRename /\ [][NextRetry]_vars

\* every attempt the rewrite has made so far ended in a conflict
AlwaysConflicted(t) == t.attempts > 0 /\ t.conflicts = t.attempts

\* C32: a label rewrite that conflicts on every attempt makes at most
\* DefaultRetrySteps attempts and then ends as a logged failure; the update
\* handler that started it has returned without error.
C32_ConflictingRewriteStops ==
    /\ \A t \in tasks :
          /\ t.attempts <= DefaultRetrySteps
          /\ (AlwaysConflicted(t) /\ t.attempts = DefaultRetrySteps)
                => t.state = "failed"
          /\ (AlwaysConflicted(t) /\ t.state = "pending")
                => t.attempts < DefaultRetrySteps
    /\ (last.kind = "attempt" /\ last.err = "conflict"
            /\ (\E t \in tasks : t.vol = last.vol /\ t.gen = last.gen
                                   /\ t.state = "failed"
                                   /\ AlwaysConflicted(t)))
          => last.logged
    /\ (last.kind = "update" /\ last.wrote) => last.err = "nil"

C32_Witness ==
    /\ last.kind = "attempt"
    /\ last.logged
    /\ \E t \in tasks : /\ t.vol = last.vol
                        /\ t.gen = last.gen
                        /\ t.state = "failed"
                        /\ t.conflicts = DefaultRetrySteps

(***************************************************************************)
(* UUID normalization (normalizeUUID), on the bytes of the string.          *)
(***************************************************************************)
MaxUUIDLen == 33

Colon == 58
Dash == 45

\* strings.ReplaceAll(s, old, "") for a one-byte old
ReplaceAll(s, old) == SelectSeq(s, LAMBDA b : b # old)

Stripped(uuid) == ReplaceAll(ReplaceAll(uuid, Colon), Dash)

groupsFlat(u) == u

\* fmt.Sprintf("%v-%v-%v-%v-%v", u[:8], u[8:12], u[12:16], u[16:20], u[20:])
groupsOf(u) ==
    SubSeq(u, 1, 8) \o <<Dash>> \o SubSeq(u, 9, 12) \o <<Dash>>
        \o SubSeq(u, 13, 16) \o <<Dash>> \o SubSeq(u, 17, 20) \o <<Dash>>
        \o SubSeq(u, 21, Len(u))

normalizeUUIDKeepDashes(uuid) ==
    LET u == ReplaceAll(uuid, Colon)
    IN  IF Len(u) > 20 THEN groupsOf(u) ELSE uuid

normalizeUUID(uuid) ==
    LET u == Stripped(uuid)
    IN  IF Len(u) > 20 THEN groupsOf(u) ELSE uuid

\* The bytes of the i-th character of an input: a hexadecimal letter, or
\* a two-byte character in first place
Letter(i, wide) ==
    IF wide /\ i = 0 THEN <<195, 169>> ELSE <<97 + (i % 6)>>

Layouts ==
    {[at |-> {}, sep |-> Dash],
     [at |-> {8, 12, 16, 20}, sep |-> Dash],
     [at |-> {8, 12, 16, 20}, sep |-> Colon],
     [at |-> {8, 16, 24}, sep |-> Colon],
     [at |-> {2, 4, 6, 8, 10}, sep |-> Colon],
     [at |-> {0}, sep |-> Dash],
     [at |-> 0..(MaxUUIDLen + 1), sep |-> Dash]}

\* n characters from the i-th on, with the layout's separator in front of
\* the characters (and the end) it names
RECURSIVE UUIDFrom(_, _, _, _)
UUIDFrom(i, n, layout, wide) ==
    (IF i \in layout.at THEN <<layout.sep>> ELSE << >>)
        \o (IF i >= n THEN << >>
            ELSE Letter(i, wide) \o UUIDFrom(i + 1, n, layout, wide))

UUIDs ==
    {UUIDFrom(0, n, layout, wide) :
        n \in 0..MaxUUIDLen, layout \in Layouts, wide \in BOOLEAN}

InitNormalize ==
    /\ MatcherIdle
    /\ StoreIdle
    /\ ParseIdle
    /\ msg \in UUIDs

\* normalizeUUID applied to a value, and to its own result
NormalizeUUID ==
    /\ parsed = None
    /\ parsed' = [kind |-> "uuid",
                  out |-> normalizeUUID(msg),
                  again |-> normalizeUUID(normalizeUUID(msg))]
    /\ UNCHANGED <<msg, ctx, sock, queue, reader, worker, handled>>
    /\ UNCHANGED matchVars
    /\ UNCHANGED storeVars

NextNormalize == NormalizeUUID

SpecNormalize == InitNormalize /\ [][NextNormalize]_vars

Normalized == parsed.kind = "uuid"

IsSeparator(b) == b \in {Colon, Dash}

DashPlaces == {9, 14, 19, 24}

\* 36 bytes, dashes in the four canonical places and nowhere else
IsCanonicalUUID(s) ==
    /\ Len(s) = 36
    /\ \A i \in DOMAIN s : IF i \in DashPlaces THEN s[i] = Dash
                           ELSE ~IsSeparator(s[i])

\* C33: normalizing the result of normalizeUUID again returns the same
\* string, and a canonical dashed 36-character UUID is returned unchanged.
C33_NormalizeIdempotent ==
    Normalized =>
        /\ parsed.again = parsed.out
        /\ IsCanonicalUUID(msg) => parsed.out = msg

C33_Witness ==
    /\ Normalized
    /\ IsCanonicalUUID(msg)

C33_WitnessRegrouped ==
    /\ Normalized
    /\ parsed.out # msg
    /\ IsCanonicalUUID(parsed.out)

\* the number of characters of a string: its bytes that do not continue a
\* multi-byte character
CharLen(s) == Cardinality({i \in DOMAIN s : s[i] \div 64 # 2})

\* out is u with a dash after its 8th, 12th, 16th and 20th byte
Regrouped(out, u) ==
    /\ Len(out) = Len(u) + 4
    /\ \A i \in DashPlaces : out[i] = Dash
    /\ ReplaceAll(out, Dash) = u

\* C34 as stated: a value whose stripped form has more than 20 characters is
\* returned regrouped 8-4-4-4-12, any other value is returned unchanged.
C34_RegroupedAsCanonical ==
    Normalized =>
        IF CharLen(Stripped(msg)) > 20
        THEN /\ Regrouped(parsed.out, Stripped(msg))
             /\ Len(parsed.out) - 24 = 12
        ELSE parsed.out = msg

\* C34: a value whose stripped form has more than 20 bytes is returned
\* regrouped into 8, 4, 4, 4 and the remaining bytes (12 exactly when the
\* stripped form has 32); any other value is returned unchanged.
C34_RegroupedWithRemainder ==
    Normalized =>
        IF Len(Stripped(msg)) > 20
        THEN /\ Regrouped(parsed.out, Stripped(msg))
             /\ Len(parsed.out) - 24 = Len(Stripped(msg)) - 20
        ELSE parsed.out = msg

C34_Witness ==
    /\ Normalized
    /\ Len(Stripped(msg)) = 21
    /\ parsed.out # msg

C34_WitnessUnchanged ==
    /\ Normalized
    /\ Len(Stripped(msg)) = 20
    /\ Len(msg) > 20

(***************************************************************************)
(* The status syncDriveStates computes, for Devices with up to two mount   *)
(* points.                                                                 *)
(***************************************************************************)
MountLists ==
    LET M == MountPointValues \ {""}
    IN  {<< >>} \cup {<<a>> : a \in M} \cup {<<a, b>> : a \in M, b \in M}

StatusDevices(drv) ==
    {[DeviceOf(drv) EXCEPT
        !.Size = size, !.FreeCapacity = 0, !.ReadOnly = ro,
        !.Partitioned = partitioned, !.SwapOn = swap, !.Master = master,
        !.MountPoints = mounts,
        !.FirstMountPoint = IF mounts = << >> THEN "" ELSE mounts[1],
        !.FirstMountOptions = IF mounts = << >> THEN "" ELSE "rw"] :
        size \in 0..MaxCap, ro \in BOOLEAN, partitioned \in BOOLEAN,
        swap \in BOOLEAN, master \in Masters, mounts \in MountLists}

SyncDriveStates ==
    /\ ops < MaxReconciles
    /\ \E dev \in StatusDevices(drive) :
        /\ last' = [kind |-> "syncDriveStates", dev |-> dev, drive |-> drive,
                    updatedDrive |-> syncDriveStates(drive, dev)]
        /\ ops' = ops + 1
        /\ UNCHANGED <<drive, volumes, hostDirs, tasks>>
        /\ UNCHANGED matchVars
        /\ UNCHANGED listenerVars

NextStatus == SyncDriveStates

SpecStatus == InitRename /\ [][NextStatus]_vars

StatesSynced == last.kind = "syncDriveStates"

\* the disqualifying conditions other than the mount points
DisqualifiedByProperty(dev) ==
    \/ dev.Size < MinSupportedDeviceSize
    \/ dev.ReadOnly
    \/ dev.Partitioned
    \/ dev.SwapOn
    \/ dev.Master # ""

MountedOutside(dev) ==
    \E i \in DOMAIN dev.MountPoints : ~UnderDirectCSI(dev.MountPoints[i])

MountedInside(dev) ==
    \E i \in DOMAIN dev.MountPoints : UnderDirectCSI(dev.MountPoints[i])

\* C35 as stated: the status is Unavailable exactly when the Device is too
\* small, read-only, partitioned, swap, a member of another device or has a
\* mount point outside the managed root, and Available otherwise.
C35_StatusByAnyOutsideMount ==
    StatesSynced =>
        last.updatedDrive.DriveStatus =
            IF DisqualifiedByProperty(last.dev) \/ MountedOutside(last.dev)
            THEN "Unavailable" ELSE "Available"

\* C35: the status is Unavailable exactly when the Device is too small,
\* read-only, partitioned, swap, a member of another device, or is mounted
\* and has no mount point under the managed root; Available otherwise.
C35_StatusByNoInsideMount ==
    StatesSynced =>
        last.updatedDrive.DriveStatus =
            IF \/ DisqualifiedByProperty(last.dev)
               \/ (MountedOutside(last.dev) /\ ~MountedInside(last.dev))
            THEN "Unavailable" ELSE "Available"

C35_Witness ==
    /\ StatesSynced
    /\ MountedOutside(last.dev)
    /\ MountedInside(last.dev)
    /\ last.updatedDrive.DriveStatus = "Available"

C35_WitnessUnavailable ==
    /\ StatesSynced
    /\ ~DisqualifiedByProperty(last.dev)
    /\ last.updatedDrive.DriveStatus = "Unavailable"

(***************************************************************************)
(* Two invocations of Handle for the same device, step by step: the list   *)
(* of the Drives, the match, the create.  The store starts without a Drive *)
(* for the device.                                                         *)
(***************************************************************************)
Workers == {"w1", "w2"}

InitWorkers ==
    /\ \E F \in HandleFocus : device \in DevicesOn(F)
    /\ drives = << >>
    /\ matchRes = None
    /\ probe = None
    /\ StoreIdle
    /\ msg = << >>
    /\ parsed = None
    /\ ctx = "live"
    /\ sock = << >>
    /\ queue = << >>
    /\ reader = None
    /\ handled = << >>
    /\ \E a \in [Workers -> {"add", "change"}] :
          worker = [w \in Workers |->
                       [pc |-> "list", action |-> a[w], listed |-> << >>,
                        after |-> {}, err |-> "nil", created |-> 0]]

WorkerUnchanged ==
    /\ UNCHANGED <<device, matchRes, probe>>
    /\ UNCHANGED storeVars
    /\ UNCHANGED <<msg, parsed, ctx, sock, queue, reader, handled>>

\* Handle up to client.GetDriveList
ListDrives(w) ==
    /\ worker[w].pc = "list"
    /\ \E ok \in BOOLEAN :
          worker' = [worker EXCEPT
              ![w].pc = IF ok THEN "match" ELSE "done",
              ![w].err = IF ok THEN "nil" ELSE "list drives",
              ![w].listed = IF ok THEN drives ELSE << >>,
              ![w].after = {v \in Workers : worker[v].pc = "done"}]
    /\ UNCHANGED drives
    /\ WorkerUnchanged

\* Handle: findMatchingDrive and the switch on its result
MatchDrive(w) ==
    /\ worker[w].pc = "match"
    /\ LET found == findMatchingDrive(worker[w].listed, device)
       IN  worker' = [worker EXCEPT
               ![w].pc = IF found.err = "errNoMatchFound"
                            /\ ~isRemove(worker[w].action)
                         THEN "create" ELSE "done",
               ![w].err = IF found.err \in {"errNoMatchFound", "nil"}
                          THEN "nil" ELSE found.err]
    /\ UNCHANGED drives
    /\ WorkerUnchanged

\* Handle: return d.add(ctx, device)
CreateDrive(w) ==
    /\ worker[w].pc = "create"
    /\ \E fail \in {"none", "create"} :
          LET r == add(drives, device, fail)
          IN  /\ drives' = r.drives
              /\ worker' = [worker EXCEPT ![w].pc = "done", ![w].err = r.err,
                                          ![w].created = r.created]
    /\ WorkerUnchanged

NextWorkers ==
    \E w \in Workers : ListDrives(w) \/ MatchDrive(w) \/ CreateDrive(w)

SpecWorkers == InitWorkers /\ [][NextWorkers]_vars

Succeeded(w) == worker[w].pc = "done" /\ worker[w].err = "nil"

\* C36: when the second of two successive add/change events for the same
\* device is handled after the first has been handled, the second creates
\* nothing and the store holds exactly one Drive for the device.
C36_SecondEventCreatesNothing ==
    \A first \in Workers, second \in Workers :
        (/\ Succeeded(first)
         /\ Succeeded(second)
         /\ worker[first].after = {}
         /\ first \in worker[second].after)
            => /\ worker[second].created = 0
               /\ Len(drives) = 1

\* C37: when two workers handle events for the same unregistered device
\* concurrently, at most one Drive is created, whatever the interleaving of
\* their list, match and create steps.
C37_ConcurrentWorkersCreateOne ==
    (\A w \in Workers : worker[w].pc # "list" /\ worker[w].after = {})
        => /\ Len(drives) <= 1
           /\ worker["w1"].created + worker["w2"].created <= 1

(***************************************************************************)
(* Volume teardown, call by call: the removal of the host directory, the   *)
(* Get and the Update of the Drive in releaseVolume, the Update of the     *)
(* Volume.  Each worker handles notifications for the deleted, unpublished *)
(* Volume v1 one after another; the workers run concurrently.  ops is the  *)
(* resource version of the Drive: a write carrying an older one is         *)
(* rejected by the store.                                                  *)
(***************************************************************************)
MaxInvocations == 2

neverStale(gotVersion, version) == FALSE

\* the store's check of the resource version carried by an Update
staleWrite(gotVersion, version) == gotVersion # version

releaseNeverFails(err) == FALSE

\* remove: `if err := handler.releaseVolume(...); err != nil { return err }`
releaseFailed(err) == err # "nil"

InitTeardown ==
    /\ ListenerIdle
    /\ MatcherIdle
    /\ \E S \in {{"v1"}, {"v1", "v2"}}, dp \in BOOLEAN :
          /\ drive = InitDrive("InUse", dp, S, "a", TRUE)
          /\ volumes = [n \in S |-> InitVolume(n, n = "v1", FALSE)]
          /\ hostDirs = S
          /\ last = [kind |-> "teardown", drive |-> drive, released |-> 0,
                     rejected |-> 0]
    /\ tasks = [w \in Workers |->
                   [pc |-> "idle", runs |-> 0, vol |-> None, got |-> None,
                    gotVersion |-> 0, releaseErr |-> "pending",
                    err |-> "nil", wroteVolume |-> FALSE]]
    /\ ops = 0

TeardownUnchanged ==
    /\ UNCHANGED matchVars
    /\ UNCHANGED listenerVars

\* the handler returns with err
Returned(t, err) == [t EXCEPT !.pc = "idle", !.runs = @ + 1, !.err = err]

\* after releaseVolume has returned err
AfterRelease(t, err) ==
    IF releaseFailed(err)
    THEN Returned([t EXCEPT !.releaseErr = err], err)
    ELSE [t EXCEPT !.pc = "volume", !.releaseErr = err]

\* Add / Update notification for v1: remove() up to os.RemoveAll
StartRemove(w) ==
    /\ tasks[w].pc = "idle"
    /\ tasks[w].runs < MaxInvocations
    /\ "v1" \in DOMAIN volumes
    /\ LET vol == volumes["v1"]
           t == [tasks[w] EXCEPT !.vol = vol, !.got = None,
                                 !.releaseErr = "pending", !.err = "nil",
                                 !.wroteVolume = FALSE]
       IN  \E ok \in BOOLEAN :
              /\ tasks' = [tasks EXCEPT ![w] =
                    IF ~vol.deleted THEN Returned(t, "nil")
                    ELSE IF isPublished(vol)
                    THEN Returned(t, "waiting for volume to be released")
                    ELSE IF ~ok THEN Returned(t, "remove all")
                    ELSE [t EXCEPT !.pc = "get"]]
              /\ hostDirs' = IF vol.deleted /\ ~isPublished(vol) /\ ok
                             THEN hostDirs \ {"v1"} ELSE hostDirs
    /\ UNCHANGED <<drive, volumes, last, ops>>
    /\ TeardownUnchanged

\* releaseVolume: DirectCSIDrives().Get
GetDrive(w) ==
    /\ tasks[w].pc = "get"
    /\ \E ok \in BOOLEAN :
          tasks' = [tasks EXCEPT ![w] =
              IF ok
              THEN [@ EXCEPT !.pc = "update", !.got = drive, !.gotVersion = ops]
              ELSE AfterRelease(@, "get drive")]
    /\ UNCHANGED <<drive, volumes, hostDirs, last, ops>>
    /\ TeardownUnchanged

\* releaseVolume: from excludeFinalizer to DirectCSIDrives().Update
UpdateDrive(w) ==
    /\ tasks[w].pc = "update"
    /\ LET t == tasks[w]
           r == releaseVolume(t.got, "v1", t.vol.TotalCapacity, "none")
       IN  \E ok \in BOOLEAN :
              LET stale == staleWrite(t.gotVersion, ops)
                  written == r.updates = 1 /\ ok /\ ~stale
                  err == IF r.updates = 0 \/ written THEN "nil"
                         ELSE "update drive"
              IN  /\ tasks' = [tasks EXCEPT ![w] = AfterRelease(t, err)]
                  /\ drive' = IF written THEN r.drive ELSE drive
                  /\ ops' = IF written THEN ops + 1 ELSE ops
                  /\ last' = [last EXCEPT
                        !.released = IF written THEN @ + 1 ELSE @,
                        !.rejected = IF r.updates = 1 /\ ok /\ stale
                                     THEN 1 ELSE @]
    /\ UNCHANGED <<volumes, hostDirs>>
    /\ TeardownUnchanged

\* remove: the purge-protection finalizer excluded, DirectCSIVolumes().Update
UpdateVolume(w) ==
    /\ tasks[w].pc = "volume"
    /\ LET t == tasks[w]
           ex == excludeFinalizer(t.vol.finalizers,
                                  DirectCSIVolumeFinalizerPurgeProtection)
       IN  \E ok \in BOOLEAN :
              LET written == /\ ok
                             /\ "v1" \in DOMAIN volumes
                             /\ volumes["v1"] = t.vol
              IN  /\ volumes' =
                        IF written
                        THEN StoreVolume(volumes, "v1",
                                 [t.vol EXCEPT !.finalizers = ex.result])
                        ELSE volumes
                  /\ tasks' = [tasks EXCEPT ![w] =
                        Returned([t EXCEPT !.wroteVolume = written],
                                 IF written THEN "nil" ELSE "update volume")]
    /\ UNCHANGED <<drive, hostDirs, last, ops>>
    /\ TeardownUnchanged

NextTeardown ==
    \E w \in Workers :
        StartRemove(w) \/ GetDrive(w) \/ UpdateDrive(w) \/ UpdateVolume(w)

SpecTeardown == InitTeardown /\ [][NextTeardown]_vars

\* C38: however many teardown invocations run for the deleted, unpublished
\* Volume, one after another or concurrently, its capacity is added to the
\* free capacity of its Drive at most once.
C38_CapacityReleasedOnce ==
    /\ last.released <= 1
    /\ drive.FreeCapacity \in
          {last.drive.FreeCapacity,
           last.drive.FreeCapacity + CapacityOf("v1")}
    /\ drive.FreeCapacity = last.drive.FreeCapacity
          + last.released * CapacityOf("v1")

\* two invocations overlapped: one released the capacity, the stale write
\* of the other was rejected, and both workers have run again since
C38_Witness ==
    /\ last.released = 1
    /\ last.rejected = 1
    /\ \A w \in Workers : tasks[w].runs = MaxInvocations

\* C39: the Volume is written (its purge-protection finalizer removed) only
\* by an invocation whose releaseVolume returned nil; an invocation whose
\* Drive read or Drive update failed returns without writing the Volume,
\* which keeps its finalizer until some invocation's release succeeds.
C39_FinalizerAfterRelease ==
    /\ \A w \in Workers :
          /\ tasks[w].wroteVolume => tasks[w].releaseErr = "nil"
          /\ tasks[w].pc = "volume" => tasks[w].releaseErr = "nil"
          /\ tasks[w].releaseErr \in {"get drive", "update drive"} =>
                /\ ~tasks[w].wroteVolume
                /\ tasks[w].pc = "idle"
                /\ tasks[w].err = tasks[w].releaseErr
    /\ (\A w \in Workers : ~tasks[w].wroteVolume) =>
          /\ "v1" \in DOMAIN volumes
          /\ volumes["v1"].finalizers =
                <<DirectCSIVolumeFinalizerPurgeProtection>>

\* one invocation failed on the Drive and left the Volume alone, a later
\* one released the Drive and removed the finalizer
C39_Witness ==
    \E failed \in Workers, done \in Workers :
        /\ tasks[failed].releaseErr = "update drive"
        /\ tasks[failed].pc = "idle"
        /\ tasks[done].wroteVolume
        /\ "v1" \notin DOMAIN volumes

C39_WitnessKept ==
    /\ \E w \in Workers : tasks[w].releaseErr = "get drive"
    /\ \A w \in Workers : tasks[w].runs = MaxInvocations
    /\ "v1" \in DOMAIN volumes

(***************************************************************************)
(* Hardware identifiers against the aggregate classification.              *)
(***************************************************************************)
\* both sides record the identifier and the values differ
Differs(recorded, observed) ==
    recorded # "" /\ observed # "" /\ recorded # observed

HardwareIdDiffers(dev, drv) ==
    \/ Differs(drv.UeventSerial, dev.UeventSerial)
    \/ Differs(drv.SerialNumber, dev.Serial)
    \/ Differs(drv.WWID, dev.WWID)

\* C40: getMatchingDrives never puts a Drive in the matched list when a
\* serial or WWID recorded on the Drive differs from the Device's non-empty
\* value, whatever the partition numbers and the other fields are.
C40_DifferentHardwareIdNeverMatches ==
    (probe.kind = "getMatchingDrives") =>
        \A k \in DOMAIN probe.res.matchedDrives :
            ~HardwareIdDiffers(device, drives[probe.res.matchedDrives[k]])
====
